---- MODULE Spec2Model ----
(***************************************************************************)
(* Model of the meteor-madness scripts: the impact estimator               *)
(* (model_test_new.py), the Horizons closest-approach batch                *)
(* (horizons_closest_approach_batch.py, horizons_trajectory.py), the MOID  *)
(* lookup (find_earth_intersections.py), the meteorite table               *)
(* (meteorite_api.py), the combined table                                  *)
(* (Intersection/fetch_and_combine_originals.py), the two top-200 tables   *)
(* (Intersection/generate_top200_from_combined.py,                         *)
(* Intersection/make_top200_intersections.py) and run_all_tables.py.       *)
(*                                                                         *)
(* NUMBERS OF THE IMPACT ESTIMATOR.  simulate_meteor_impact uses only      *)
(* *, /, ** and comparisons, never + or -.  A Python float is modelled as  *)
(* a sign and the base-10 logarithm of its magnitude in thousandths of a   *)
(* decade (a logarithmic number system): 20.0 is Pos(1301), 1e7 is         *)
(* Pos(7000), 0.1 is Pos(-1000).  Every literal of the source is rounded   *)
(* to the nearest representable value, as Python rounds it to the nearest  *)
(* double; * and / are exact, ** rounds to nearest; comparisons are exact. *)
(* The relative resolution is 10^0.001 (0.23%) instead of 2^-53.  The      *)
(* exponent range is not limited: the inputs drawn stay between 1 m and    *)
(* 10 km, 1 km/s and 100 km/s, far from the overflow and underflow of a    *)
(* double.  Zero, negative numbers, str operands, complex results and the  *)
(* exceptions Python raises (TypeError, ZeroDivisionError) are modelled.   *)
(***************************************************************************)
EXTENDS Integers, Sequences, FiniteSets, TLC

VARIABLES
    cur,        \* the latest call of simulate_meteor_impact: [args, out]
    console,    \* what interactive_simulator printed last
    predicted,  \* test_model: the list of predicted crater diameters
    script,     \* which script was started
    b_rows,     \* batch: the rows read from the input CSV
    b_args,     \* batch: the command line: [max, threshold_au]
    b_next,     \* batch: index of the next input row of the for loop
    b_checked,  \* batch: checked
    b_results,  \* batch: results
    b_parsed,   \* batch: the rows parse_vectors_text gave for the latest query
    b_budget,   \* how many more ephemeris points Horizons will send in this run
    b_out,      \* batch: the rows written to horizons_intersections.csv
    t_out,      \* horizons_trajectory: what the run printed and wrote
    m_rows,     \* find_earth_intersections: the rows read from the input CSV
    m_args,     \* find_earth_intersections: the command line: [max_calls, threshold_au]
    m_i,        \* find_earth_intersections: position of the for loop over rows
    m_pc,       \* find_earth_intersections: "rows", "variants" (inner loop) or "done"
    m_variants, \* find_earth_intersections: variants of the row at hand
    m_v,        \* find_earth_intersections: position of the for loop over variants
    m_found,    \* find_earth_intersections: found
    m_last_error, \* find_earth_intersections: last_error ("" is None)
    m_calls,    \* find_earth_intersections: calls
    m_results,  \* find_earth_intersections: results
    m_out,      \* find_earth_intersections: the rows written to earth_intersections.csv
    w_call,     \* meteorite_api: the function called last, "none" before any call
    w_arg,      \* meteorite_api: its input: the data list, or what Socrata answered
    w_ret,      \* meteorite_api: how the call ended: [raised, value]
    w_csv,      \* meteorite_api: the file out_csv: [written, rows]
    w_raw,      \* meteorite_api: whether meteorite_raw.json was written
    c_world,    \* fetch_and_combine_originals: what the five services hold and answer
    c_stage,    \* fetch_and_combine_originals: the stage the script is in
    c_page,     \* fetch_and_combine_originals: page of the NeoWs browse loop
    c_offset,   \* fetch_and_combine_originals: offset of the Socrata loop
    c_collected, \* fetch_and_combine_originals: collected
    c_seen_keys, \* fetch_and_combine_originals: seen_keys
    c_counts,   \* fetch_and_combine_originals: counts
    c_neo_ids,  \* fetch_and_combine_originals: neo_ids of the SBDB stage
    c_made,     \* fetch_and_combine_originals: made
    c_requests, \* fetch_and_combine_originals: the number of GET requests sent so far
    c_out,      \* fetch_and_combine_originals: the rows written to combined_originals.csv
    g_in,       \* top 200: the input CSV: [exists, rows]
    g_out,      \* top 200: top200_intersections.csv and the exit: [written, rows, exit]
    r_next,     \* run_all_tables: position of the for loop over scripts
    r_running,  \* run_all_tables: the child processes that are running
    r_log       \* run_all_tables: what happened so far: [script, event, code]

impactVars == <<cur, console, predicted>>
horizonsVars == <<script, b_rows, b_args, b_next, b_checked, b_results, b_parsed, b_budget,
                  b_out, t_out>>
moidVars == <<m_rows, m_args, m_i, m_pc, m_variants, m_v, m_found, m_last_error, m_calls,
              m_results, m_out>>
meteoriteVars == <<w_call, w_arg, w_ret, w_csv, w_raw>>
combineVars == <<c_world, c_stage, c_page, c_offset, c_collected, c_seen_keys, c_counts,
                 c_neo_ids, c_made, c_requests, c_out>>
topVars == <<g_in, g_out>>
runVars == <<r_next, r_running, r_log>>
vars == <<impactVars, horizonsVars, moidVars, meteoriteVars, combineVars, topVars, runVars>>

\* what a script leaves alone: the state of the other scripts
outsideImpact == <<horizonsVars, moidVars, meteoriteVars, combineVars, topVars, runVars>>
outsideHorizons == <<impactVars, moidVars, meteoriteVars, combineVars, topVars, runVars>>
outsideMoid == <<impactVars, horizonsVars, meteoriteVars, combineVars, topVars, runVars>>
outsideMeteorite == <<impactVars, horizonsVars, moidVars, combineVars, topVars, runVars>>
outsideTop == <<impactVars, horizonsVars, moidVars, meteoriteVars, combineVars, runVars>>
outsideRun == <<impactVars, horizonsVars, moidVars, meteoriteVars, combineVars, topVars>>
outsideCombine == <<impactVars, horizonsVars, moidVars, meteoriteVars, topVars, runVars>>

----------------------------------------------------------------------------
(* Python values *)

Pos(l) == [k |-> "num", s |-> 1, l |-> l]
Neg(l) == [k |-> "num", s |-> -1, l |-> l]
Zero == [k |-> "num", s |-> 0, l |-> 0]
Str == [k |-> "str", s |-> 0, l |-> 0]
\* a complex number: s = 1 when it is not 0j, l the logarithm of its modulus
Cplx(s, l) == [k |-> "cplx", s |-> s, l |-> IF s = 0 THEN 0 ELSE l]
Exc(name) == [k |-> name, s |-> 0, l |-> 0]

Exceptions == {"TypeError", "ZeroDivisionError"}
IsExc(x) == x.k \in Exceptions
IsNum(x) == x.k = "num"

\* x * y on floats (and complex); float * str raises TypeError
Mul(a, b) ==
    IF IsExc(a) THEN a
    ELSE IF IsExc(b) THEN b
    ELSE IF a.k = "str" \/ b.k = "str" THEN Exc("TypeError")
    ELSE IF a.k = "cplx" \/ b.k = "cplx"
         THEN Cplx(IF a.s = 0 \/ b.s = 0 THEN 0 ELSE 1, a.l + b.l)
    ELSE IF a.s = 0 \/ b.s = 0 THEN Zero
    ELSE [k |-> "num", s |-> a.s * b.s, l |-> a.l + b.l]

\* x * n with n an int literal: a str is repeated, not rejected
MulInt(a, n) ==
    IF a.k = "str" THEN Str ELSE Mul(a, n)

\* x / y: division by zero raises ZeroDivisionError, a str operand TypeError
Div(a, b) ==
    IF IsExc(a) THEN a
    ELSE IF IsExc(b) THEN b
    ELSE IF a.k = "str" \/ b.k = "str" THEN Exc("TypeError")
    ELSE IF b.s = 0 THEN Exc("ZeroDivisionError")
    ELSE IF a.k = "cplx" \/ b.k = "cplx"
         THEN Cplx(IF a.s = 0 THEN 0 ELSE 1, a.l - b.l)
    ELSE IF a.s = 0 THEN Zero
    ELSE [k |-> "num", s |-> a.s * b.s, l |-> a.l - b.l]

\* x ** n for the int literals 2 and 3
PowInt(a, n) ==
    IF IsExc(a) THEN a
    ELSE IF a.k = "str" THEN Exc("TypeError")
    ELSE IF a.s = 0 THEN Zero
    ELSE [k |-> "num",
          s |-> IF n % 2 = 0 THEN 1 ELSE a.s,
          l |-> n * a.l]

\* round(l * p / 1000), to nearest
ScaleLog(l, p) == (l * p + 500) \div 1000

\* x ** (p/1000) for a float literal exponent that is no integer:
\* 0.0 ** negative raises, negative ** fraction is a complex number
PowFrac(a, p) ==
    IF IsExc(a) THEN a
    ELSE IF a.k = "str" THEN Exc("TypeError")
    ELSE IF a.s = 0
         THEN IF p < 0 THEN Exc("ZeroDivisionError") ELSE Zero
    ELSE IF a.s = -1 \/ a.k = "cplx" THEN Cplx(1, ScaleLog(a.l, p))
    ELSE Pos(ScaleLog(a.l, p))

\* x < y on floats
Lt(a, b) ==
    IF a.s # b.s THEN a.s < b.s
    ELSE IF a.s = 1 THEN a.l < b.l
    ELSE IF a.s = -1 THEN a.l > b.l
    ELSE FALSE

Gt(a, b) == Lt(b, a)
Le(a, b) == Lt(a, b) \/ a = b

----------------------------------------------------------------------------
(* model_test_new.py: simulate_meteor_impact *)

\* the literals of the source, each rounded to the nearest representable value
math_pi == Pos(497)               \* math.pi
four_thirds == Pos(125)           \* (4/3)
one_half == Pos(-301)             \* 0.5
joules_per_megaton == Pos(15622)  \* 4.184e15
atmosphere_density == Pos(79)     \* 1.2 kg/m3
breakup_strength == Pos(7000)     \* 1e7 Pa
airburst_max_diameter == Pos(1778) \* 60 m
crater_coefficient == Pos(65)     \* 1.161
default_density == Pos(3477)      \* density_kg_m3=3000
default_target_density == Pos(3431) \* target_density_kg_m3=2700
default_gravity == Pos(992)       \* gravity=9.81
tier_local == Pos(-1000)          \* 0.1 Mt
tier_regional == Pos(1000)        \* 10 Mt
tier_global == Pos(3000)          \* 1000 Mt

\* Kinetics with the radius taken to be the diameter (the / 2 forgotten)
KineticsNoHalving(diameter_m, velocity_km_s, density_kg_m3) ==
    LET radius_m == Div(diameter_m, Pos(0))
        velocity_m_s == MulInt(velocity_km_s, Pos(3000))
        mass_kg == Mul(Mul(Mul(four_thirds, math_pi), PowInt(radius_m, 3)),
                       density_kg_m3)
        energy_j == Mul(Mul(one_half, mass_kg), PowInt(velocity_m_s, 2))
        energy_mt == Div(energy_j, joules_per_megaton)
    IN  [radius_m |-> radius_m, velocity_m_s |-> velocity_m_s,
         mass_kg |-> mass_kg, energy_j |-> energy_j, energy_mt |-> energy_mt]

\* lines 15-19: radius, velocity in m/s, mass, kinetic energy, megatons
Kinetics(diameter_m, velocity_km_s, density_kg_m3) ==
    LET radius_m == Div(diameter_m, Pos(301))
        velocity_m_s == MulInt(velocity_km_s, Pos(3000))
        mass_kg == Mul(Mul(Mul(four_thirds, math_pi), PowInt(radius_m, 3)),
                       density_kg_m3)
        energy_j == Mul(Mul(one_half, mass_kg), PowInt(velocity_m_s, 2))
        energy_mt == Div(energy_j, joules_per_megaton)
    IN  [radius_m |-> radius_m, velocity_m_s |-> velocity_m_s,
         mass_kg |-> mass_kg, energy_j |-> energy_j, energy_mt |-> energy_mt]

\* line 25: dynamic_pressure = 0.5 * atmosphere_density * velocity_m_s**2
DynamicPressure(velocity_m_s) ==
    Mul(Mul(one_half, atmosphere_density), PowInt(velocity_m_s, 2))

\* WillAirburst with diameter_m <= 60 in place of diameter_m < 60
WillAirburstInclusive(dynamic_pressure, diameter_m) ==
    /\ Gt(dynamic_pressure, breakup_strength)
    /\ Le(diameter_m, airburst_max_diameter)

\* line 29: will_airburst = dynamic_pressure > breakup_strength and diameter_m < 60
WillAirburst(dynamic_pressure, diameter_m) ==
    /\ Gt(dynamic_pressure, breakup_strength)
    /\ Lt(diameter_m, airburst_max_diameter)

\* Branch with the crater formula evaluated in the airburst branch too
BranchCraterAlways(will_airburst, energy_mt, mass_kg, velocity_m_s, target_density_kg_m3, gravity) ==
    LET crater_diameter_m ==
            Mul(crater_coefficient,
                Mul(Mul(PowFrac(gravity, -220), PowFrac(velocity_m_s, 440)),
                    PowFrac(Div(mass_kg, target_density_kg_m3), 333)))
    IN  IF will_airburst
        THEN [crater_diameter_m |-> crater_diameter_m,
              damage_radius_km |-> Mul(PowFrac(energy_mt, 330), Pos(301)),
              damage_description |-> "Airburst - no crater, strong blast wave"]
        ELSE [crater_diameter_m |-> crater_diameter_m,
              damage_radius_km |-> Div(crater_diameter_m, Pos(2699)),
              damage_description |-> "Ground impact - crater formation"]

\* Branch with target_density_kg_m3 / mass_kg in place of mass_kg / target_density_kg_m3
BranchSwappedRatio(will_airburst, energy_mt, mass_kg, velocity_m_s, target_density_kg_m3, gravity) ==
    IF will_airburst
    THEN [crater_diameter_m |-> Zero,
          damage_radius_km |-> Mul(PowFrac(energy_mt, 330), Pos(301)),
          damage_description |-> "Airburst - no crater, strong blast wave"]
    ELSE LET crater_diameter_m ==
                 Mul(crater_coefficient,
                     Mul(Mul(PowFrac(gravity, -220), PowFrac(velocity_m_s, 440)),
                         PowFrac(Div(target_density_kg_m3, mass_kg), 333)))
         IN  [crater_diameter_m |-> crater_diameter_m,
              damage_radius_km |-> Div(crater_diameter_m, Pos(2699)),
              damage_description |-> "Ground impact - crater formation"]

\* lines 31-41: the airburst and the ground-impact branch
Branch(will_airburst, energy_mt, mass_kg, velocity_m_s, target_density_kg_m3, gravity) ==
    IF will_airburst
    THEN [crater_diameter_m |-> Zero,
          damage_radius_km |-> Mul(PowFrac(energy_mt, 330), Pos(301)),
          damage_description |-> "Airburst - no crater, strong blast wave"]
    ELSE LET crater_diameter_m ==
                 Mul(crater_coefficient,
                     Mul(Mul(PowFrac(gravity, -220), PowFrac(velocity_m_s, 440)),
                         PowFrac(Div(mass_kg, target_density_kg_m3), 333)))
         IN  [crater_diameter_m |-> crater_diameter_m,
              damage_radius_km |-> Div(crater_diameter_m, Pos(2699)),
              damage_description |-> "Ground impact - crater formation"]

\* DamageLevel with <= in place of < at every boundary
DamageLevelInclusive(energy_mt) ==
    IF Le(energy_mt, tier_local) THEN "Minor flash / negligible"
    ELSE IF Le(energy_mt, tier_regional) THEN "Local damage (few km)"
    ELSE IF Le(energy_mt, tier_global) THEN "Regional devastation"
    ELSE "Global catastrophic impact"

\* lines 46-53: the damage tier
DamageLevel(energy_mt) ==
    IF Lt(energy_mt, tier_local) THEN "Minor flash / negligible"
    ELSE IF Lt(energy_mt, tier_regional) THEN "Local damage (few km)"
    ELSE IF Lt(energy_mt, tier_global) THEN "Regional devastation"
    ELSE "Global catastrophic impact"

\* what a call leaves when it raises: no dictionary is returned
Raised(name) ==
    [status |-> name, energy_mt |-> Zero, crater_diameter_m |-> Zero,
     damage_radius_km |-> Zero, damage_level |-> "", airburst |-> FALSE,
     damage_description |-> ""]

\* lines 8-62: the returned dictionary, or the exception raised
simulate_meteor_impact(diameter_m, velocity_km_s, density_kg_m3, target_density_kg_m3, gravity) ==
    LET kin == Kinetics(diameter_m, velocity_km_s, density_kg_m3)
    IN  IF IsExc(kin.radius_m) THEN Raised(kin.radius_m.k)
        ELSE IF IsExc(kin.mass_kg) THEN Raised(kin.mass_kg.k)
        ELSE IF IsExc(kin.energy_mt) THEN Raised(kin.energy_mt.k)
        ELSE
        LET dynamic_pressure == DynamicPressure(kin.velocity_m_s)
            will_airburst == WillAirburst(dynamic_pressure, diameter_m)
            br == Branch(will_airburst, kin.energy_mt, kin.mass_kg,
                         kin.velocity_m_s, target_density_kg_m3, gravity)
        IN  IF IsExc(br.crater_diameter_m) THEN Raised(br.crater_diameter_m.k)
            ELSE IF IsExc(br.damage_radius_km) THEN Raised(br.damage_radius_km.k)
            ELSE [status |-> "ok",
                  energy_mt |-> kin.energy_mt,
                  crater_diameter_m |-> br.crater_diameter_m,
                  damage_radius_km |-> br.damage_radius_km,
                  damage_level |-> DamageLevel(kin.energy_mt),
                  airburst |-> will_airburst,
                  damage_description |-> br.damage_description]

----------------------------------------------------------------------------
(* model_test_new.py: the callers of simulate_meteor_impact *)

Args(d, v, rho, rho_t, g) ==
    [diameter_m |-> d, velocity_km_s |-> v, density_kg_m3 |-> rho,
     target_density_kg_m3 |-> rho_t, gravity |-> g]

Call(a) ==
    [args |-> a,
     out |-> simulate_meteor_impact(a.diameter_m, a.velocity_km_s, a.density_kg_m3,
                                    a.target_density_kg_m3, a.gravity)]

\* no call made yet
NoCall == [args |-> Args(Zero, Zero, Zero, Zero, Zero), out |-> Raised("none")]

\* diameters drawn: 10, 20, 50, 59.8, 60, 60.1, 81.1, 100, 811, 10000 m
Diameters == {Pos(l) : l \in {1000, 1301, 1699, 1777, 1778, 1779, 1909, 2000, 2909, 4000}}
\* velocities drawn: 1, 4.08, 4.09, 9.98, 10, 19, 20, 100 km/s
Velocities == {Pos(l) : l \in {0, 611, 612, 999, 1000, 1279, 1301, 2000}}
\* overridden parameters: iron 8000 kg/m3, water 1000 kg/m3, the Moon 1.62 m/s2
IronDensity == Pos(3903)
WaterDensity == Pos(3000)
MoonGravity == Pos(210)
\* what is no positive number: zero, a negative number, a str
Invalid == {Zero, Neg(699), Str}

\* the arguments a caller passes with every parameter positive
ValidArgs ==
    {Args(d, v, default_density, default_target_density, default_gravity) :
        d \in Diameters, v \in Velocities}
    \cup {Args(d, v, IronDensity, default_target_density, default_gravity) :
        d \in Diameters, v \in Velocities}
    \cup {Args(d, v, default_density, WaterDensity, default_gravity) :
        d \in Diameters, v \in Velocities}
    \cup {Args(d, v, default_density, default_target_density, MoonGravity) :
        d \in Diameters, v \in Velocities}

\* the arguments with one parameter zero, negative or a str
InvalidArgs ==
    {Args(x, v, default_density, default_target_density, default_gravity) :
        x \in Invalid, v \in {Pos(0), Pos(1301)}}
    \cup {Args(d, x, default_density, default_target_density, default_gravity) :
        x \in Invalid, d \in {Pos(1301), Pos(2000)}}
    \cup {Args(d, Pos(1301), x, default_target_density, default_gravity) :
        x \in Invalid, d \in {Pos(1301), Pos(2000)}}
    \cup {Args(d, Pos(1301), default_density, x, default_gravity) :
        x \in Invalid, d \in {Pos(1301), Pos(2000)}}
    \cup {Args(d, Pos(1301), default_density, default_target_density, x) :
        x \in Invalid, d \in {Pos(1301), Pos(2000)}}

\* lines 69-75: test_events (diameter_m, velocity_km_s): Barringer, Tunguska,
\* Chelyabinsk, Chicxulub, Meteor Crater Small Test
test_events ==
    << <<Pos(1699), Pos(1107)>>, <<Pos(1699), Pos(1230)>>, <<Pos(1301), Pos(1279)>>,
       <<Pos(4000), Pos(1301)>>, <<Pos(2000), Pos(1301)>> >>

TestCall(i) ==
    Call(Args(test_events[i][1], test_events[i][2],
              default_density, default_target_density, default_gravity))

\* what the user types at a prompt of interactive_simulator
Typed(v) == [t |-> "number", v |-> v]
Garbage == [t |-> "garbage", v |-> Zero]
Empty == [t |-> "empty", v |-> Zero]
DiameterTexts == {Typed(Pos(1301)), Typed(Pos(2000)), Typed(Zero), Typed(Neg(699)), Garbage}
VelocityTexts == {Typed(Pos(1279)), Typed(Pos(0)), Typed(Zero), Garbage}
DensityTexts == {Empty, Typed(IronDensity), Typed(Zero), Garbage}

\* float(text): ValueError unless the text is a number
FloatOf(text) == IF text.t = "number" THEN text.v ELSE Exc("ValueError")
\* float(text or 3000): the empty answer is the default density
FloatOrDefault(text) == IF text.t = "empty" THEN default_density ELSE FloatOf(text)

ImpactInit ==
    /\ cur = NoCall
    /\ console = "none"
    /\ predicted = <<>>
    /\ script = "model_test_new"
    /\ b_rows = <<>>
    /\ b_args = [max |-> 0, threshold_au |-> 0]
    /\ b_next = 0
    /\ b_checked = 0
    /\ b_results = <<>>
    /\ b_parsed = <<>>
    /\ b_budget = 0
    /\ b_out = [written |-> FALSE, rows |-> <<>>]
    /\ t_out = [ran |-> FALSE, points |-> 0, min_row |-> <<>>, saved_raw |-> FALSE]
    /\ m_rows = <<>>
    /\ m_args = [max_calls |-> 0, threshold_au |-> 0]
    /\ m_i = 1
    /\ m_pc = "rows"
    /\ m_variants = <<>>
    /\ m_v = 1
    /\ m_found = FALSE
    /\ m_last_error = ""
    /\ m_calls = 0
    /\ m_results = <<>>
    /\ m_out = [written |-> FALSE, rows |-> <<>>]
    /\ w_call = "none"
    /\ w_arg = <<>>
    /\ w_ret = [raised |-> "", value |-> <<>>]
    /\ w_csv = [written |-> FALSE, rows |-> <<>>]
    /\ w_raw = FALSE
    /\ c_world = <<>>
    /\ c_stage = "neows"
    /\ c_page = 0
    /\ c_offset = 0
    /\ c_collected = <<>>
    /\ c_seen_keys = {}
    /\ c_counts = [neo |-> 0, sbdb |-> 0, fireball |-> 0, meteorite |-> 0, horizons |-> 0]
    /\ c_neo_ids = <<>>
    /\ c_made = 0
    /\ c_requests = 0
    /\ c_out = [written |-> FALSE, rows |-> <<>>]
    /\ g_in = [exists |-> FALSE, rows |-> <<>>]
    /\ g_out = [written |-> FALSE, rows |-> <<>>, exit |-> -1]
    /\ r_next = 1
    /\ r_running = {}
    /\ r_log = <<>>

\* a caller of the library function: simulate_meteor_impact(...)
Estimate(a) ==
    /\ cur' = Call(a)
    /\ UNCHANGED <<console, predicted>>
    /\ UNCHANGED outsideImpact

\* lines 68-90: test_model simulates every test event with the default parameters
\* and collects the predicted crater diameters
TestModel ==
    /\ predicted' = [i \in 1..Len(test_events) |-> TestCall(i).out.crater_diameter_m]
    /\ cur' = TestCall(Len(test_events))
    /\ UNCHANGED console
    /\ UNCHANGED outsideImpact

\* lines 106-130: interactive_simulator
InteractiveSimulator(dText, vText, rhoText) ==
    /\ UNCHANGED outsideImpact
    /\ LET diameter == FloatOf(dText)
           velocity == FloatOf(vText)
           density == FloatOrDefault(rhoText)
       IN  IF diameter.k = "ValueError" \/ velocity.k = "ValueError"
              \/ density.k = "ValueError"
           THEN /\ console' = "Invalid input. Please enter numeric values."
                /\ UNCHANGED <<cur, predicted>>
           ELSE /\ cur' = Call(Args(diameter, velocity, density,
                                    default_target_density, default_gravity))
                /\ console' = "IMPACT RESULTS"
                /\ UNCHANGED predicted

ImpactNext ==
    \/ \E a \in ValidArgs \cup InvalidArgs : Estimate(a)
    \/ TestModel
    \/ \E dText \in DiameterTexts, vText \in VelocityTexts, rhoText \in DensityTexts :
           InteractiveSimulator(dText, vText, rhoText)


----------------------------------------------------------------------------
(* horizons_closest_approach_batch.py and horizons_trajectory.py *)

\* Lengths are integers: a position component is a number of thousandths of an
\* AU, a distance in km a number of hundreds of km.
\* AU_KM = 149597870.7 km per AU is 149597.8707 km per thousandth of an AU,
\* 1496 hundreds of km.
AU_KM == 1496

\* model bounds
MaxPoints == 3      \* ephemeris points Horizons sends in one run, over all queries
MaxRows == 2        \* rows of the input CSV

\* the Julian date of the first ephemeris point; the step is one day
FirstEpoch == 2460677

\* the positions an ephemeris line may give (thousandths of an AU)
Positions == {<<1, 0, 0>>, <<0, -1, 0>>, <<0, 2, -1>>}

\* the lines of a Horizons response, as parse_vectors_text tells them apart
SoeLine == [t |-> "$$SOE", jd |-> 0, p |-> <<>>]
EoeLine == [t |-> "$$EOE", jd |-> 0, p |-> <<>>]
OtherLine == [t |-> "other", jd |-> 0, p |-> <<>>]
EpochLine(jd) == [t |-> "epoch", jd |-> jd, p |-> <<>>]
XyzLine(p) == [t |-> "XYZ", jd |-> 0, p |-> p]
VelLine == [t |-> "VXVYVZ", jd |-> 0, p |-> <<>>]

\* the block of one ephemeris point; a point whose X Y Z line cannot be read
\* (fewer than three numbers) is given as <<>>
Block(jd, p) ==
    IF p = <<>> THEN <<EpochLine(jd), OtherLine, VelLine>>
    ELSE <<EpochLine(jd), XyzLine(p), VelLine>>

RECURSIVE Blocks(_, _)
Blocks(points, i) ==
    IF i > Len(points) THEN <<>>
    ELSE Block(FirstEpoch + i - 1, points[i]) \o Blocks(points, i + 1)

\* a response with a vector table, epochs ascending as Horizons sends them
TableText(points) == <<OtherLine, SoeLine>> \o Blocks(points, 1) \o <<EoeLine, OtherLine>>
\* a response without a table (an error page of Horizons)
NoTableText == <<OtherLine, OtherLine>>

RECURSIVE SeqsUpTo(_, _)
SeqsUpTo(S, n) ==
    IF n = 0 THEN {<<>>}
    ELSE LET shorter == SeqsUpTo(S, n - 1)
         IN  shorter \cup {Append(q, x) : q \in {r \in shorter : Len(r) = n - 1}, x \in S}

\* what query_horizons gives: the text, or the exception of requests
Responses(budget) ==
    {[ok |-> FALSE, txt |-> <<>>, points |-> 0],
     [ok |-> TRUE, txt |-> NoTableText, points |-> 0]}
    \cup {[ok |-> TRUE, txt |-> TableText(q), points |-> Len(q)] :
             q \in SeqsUpTo(Positions \cup {<<>>}, budget)}

\* lines 26-66: parse_vectors_text, from line i on; epoch 0 and x = <<>> are None
RECURSIVE ParseLines(_, _, _, _, _, _)
ParseLines(lines, i, in_table, rows, epoch, x) ==
    IF i > Len(lines) THEN rows
    ELSE LET s == lines[i]
             flushed == IF epoch # 0 /\ x # <<>>
                        THEN Append(rows, [epoch |-> epoch, X |-> x[1], Y |-> x[2], Z |-> x[3]])
                        ELSE rows
         IN  IF s.t = "$$SOE" THEN ParseLines(lines, i + 1, TRUE, rows, epoch, x)
             ELSE IF s.t = "$$EOE" THEN flushed
             ELSE IF ~in_table THEN ParseLines(lines, i + 1, in_table, rows, epoch, x)
             ELSE IF s.t = "epoch" THEN ParseLines(lines, i + 1, in_table, flushed, s.jd, <<>>)
             ELSE IF s.t = "XYZ" THEN ParseLines(lines, i + 1, in_table, rows, epoch, s.p)
             ELSE ParseLines(lines, i + 1, in_table, rows, epoch, x)

parse_vectors_text(txt) == ParseLines(txt, 1, FALSE, <<>>, 0, <<>>)

\* n ** 0.5, rounded down
RECURSIVE SqrtIter(_, _)
SqrtIter(n, r) ==
    LET r2 == (r + n \div r) \div 2
    IN  IF r2 >= r THEN r ELSE SqrtIter(n, r2)

Sqrt(n) == IF n = 0 THEN 0 ELSE SqrtIter(n, n)

\* RowDistance with z*z left out of the sum
RowDistanceNoZ(r) ==
    LET x == r.X * AU_KM
        y == r.Y * AU_KM
    IN  Sqrt(x * x + y * y)

\* lines 99-100: the distance of a row in km
RowDistance(r) ==
    LET x == r.X * AU_KM
        y == r.Y * AU_KM
        z == r.Z * AU_KM
    IN  Sqrt(x * x + y * y + z * z)

\* MinLoop with d <= min_dist in place of d < min_dist
RECURSIVE MinLoopLastTie(_, _, _, _)
MinLoopLastTie(rows, i, min_dist, min_epoch) ==
    IF i > Len(rows) THEN [min_dist |-> min_dist, min_epoch |-> min_epoch]
    ELSE LET d == RowDistance(rows[i])
         IN  IF min_dist = -1 \/ d <= min_dist
             THEN MinLoopLastTie(rows, i + 1, d, rows[i].epoch)
             ELSE MinLoopLastTie(rows, i + 1, min_dist, min_epoch)

\* lines 96-102: the loop over the rows; min_dist -1 is None
RECURSIVE MinLoop(_, _, _, _)
MinLoop(rows, i, min_dist, min_epoch) ==
    IF i > Len(rows) THEN [min_dist |-> min_dist, min_epoch |-> min_epoch]
    ELSE LET d == RowDistance(rows[i])
         IN  IF min_dist = -1 \/ d < min_dist
             THEN MinLoop(rows, i + 1, d, rows[i].epoch)
             ELSE MinLoop(rows, i + 1, min_dist, min_epoch)

\* process_object returning a distance of 0 where no row was parsed
process_objectSilentZero(response) ==
    IF ~response.ok
    THEN [min_dist_km |-> -1, min_epoch_jd |-> 0, points |-> 0, err |-> "HTTPError"]
    ELSE LET rows == parse_vectors_text(response.txt)
             m == MinLoop(rows, 1, 0, 0)
         IN  [min_dist_km |-> m.min_dist, min_epoch_jd |-> m.min_epoch,
              points |-> Len(rows), err |-> ""]

\* lines 86-103: process_object; res.points = 0 stands for res = None, and err
\* "HTTPError" for str(e) of the exception of requests, which is never empty
process_object(response) ==
    IF ~response.ok
    THEN [min_dist_km |-> -1, min_epoch_jd |-> 0, points |-> 0, err |-> "HTTPError"]
    ELSE LET rows == parse_vectors_text(response.txt)
         IN  IF rows = <<>>
             THEN [min_dist_km |-> -1, min_epoch_jd |-> 0, points |-> 0,
                   err |-> "no_vectors_parsed"]
             ELSE LET m == MinLoop(rows, 1, -1, 0)
                  IN  [min_dist_km |-> m.min_dist, min_epoch_jd |-> m.min_epoch,
                       points |-> Len(rows), err |-> ""]

\* Intersects with < in place of <=
IntersectsStrict(min_dist_km, threshold_au) == min_dist_km < threshold_au * AU_KM

\* line 148: intersects = res['min_dist_km'] <= thr_km, thr_km of line 120
Intersects(min_dist_km, threshold_au) == min_dist_km <= threshold_au * AU_KM

\* lines 145-149: the row appended to results ('' where the dict has no key)
ResultRow(ident, name, res, threshold_au) ==
    IF res.err # ""
    THEN [id |-> ident, name |-> name, min_dist_km |-> "", min_epoch_jd |-> "",
          intersects |-> "", points |-> "", error |-> res.err]
    ELSE [id |-> ident, name |-> name, min_dist_km |-> res.min_dist_km,
          min_epoch_jd |-> res.min_epoch_jd,
          intersects |-> Intersects(res.min_dist_km, threshold_au),
          points |-> res.points, error |-> ""]

\* the rows of the input CSV: an object of source 'neo', a fireball, a row with
\* neither id nor name, an object with no source column and only a name
CsvRows ==
    {[source |-> "neo", id |-> "433", name |-> "Eros"],
     [source |-> "Fireball", id |-> "", name |-> ""],
     [source |-> "neo", id |-> "", name |-> ""],
     [source |-> "", id |-> "", name |-> "Apophis"]}

\* --max: 0 is no limit
MaxValues == {0, 1}
\* --threshold-au, in thousandths of an AU (the default is 1)
ThresholdValues == {1, 2}

\* lines 106-129: the arguments are parsed and the input CSV is read
HorizonsInit ==
    /\ script \in {"horizons_closest_approach_batch", "horizons_trajectory"}
    /\ IF script = "horizons_closest_approach_batch"
       THEN /\ b_rows \in SeqsUpTo(CsvRows, MaxRows)
            /\ b_args \in [max : MaxValues, threshold_au : ThresholdValues]
       ELSE /\ b_rows = <<>>
            /\ b_args = [max |-> 0, threshold_au |-> 0]
    /\ b_next = 1
    /\ b_checked = 0
    /\ b_results = <<>>
    /\ b_parsed = <<>>
    /\ b_budget = MaxPoints
    /\ b_out = [written |-> FALSE, rows |-> <<>>]
    /\ t_out = [ran |-> FALSE, points |-> 0, min_row |-> <<>>, saved_raw |-> FALSE]
    /\ cur = NoCall
    /\ console = "none"
    /\ predicted = <<>>
    /\ m_rows = <<>>
    /\ m_args = [max_calls |-> 0, threshold_au |-> 0]
    /\ m_i = 1
    /\ m_pc = "rows"
    /\ m_variants = <<>>
    /\ m_v = 1
    /\ m_found = FALSE
    /\ m_last_error = ""
    /\ m_calls = 0
    /\ m_results = <<>>
    /\ m_out = [written |-> FALSE, rows |-> <<>>]
    /\ w_call = "none"
    /\ w_arg = <<>>
    /\ w_ret = [raised |-> "", value |-> <<>>]
    /\ w_csv = [written |-> FALSE, rows |-> <<>>]
    /\ w_raw = FALSE
    /\ c_world = <<>>
    /\ c_stage = "neows"
    /\ c_page = 0
    /\ c_offset = 0
    /\ c_collected = <<>>
    /\ c_seen_keys = {}
    /\ c_counts = [neo |-> 0, sbdb |-> 0, fireball |-> 0, meteorite |-> 0, horizons |-> 0]
    /\ c_neo_ids = <<>>
    /\ c_made = 0
    /\ c_requests = 0
    /\ c_out = [written |-> FALSE, rows |-> <<>>]
    /\ g_in = [exists |-> FALSE, rows |-> <<>>]
    /\ g_out = [written |-> FALSE, rows |-> <<>>, exit |-> -1]
    /\ r_next = 1
    /\ r_running = {}
    /\ r_log = <<>>

\* LoopRuns with checked > args.max in place of checked >= args.max
LoopRunsPastLimit ==
    /\ script = "horizons_closest_approach_batch"
    /\ ~b_out.written
    /\ b_next <= Len(b_rows)
    /\ ~(b_args.max # 0 /\ b_checked > b_args.max)

\* LoopRuns with checked >= args.max alone, --max 0 no longer meaning no limit
LoopRunsZeroIsLimit ==
    /\ script = "horizons_closest_approach_batch"
    /\ ~b_out.written
    /\ b_next <= Len(b_rows)
    /\ ~(b_checked >= b_args.max)

\* line 131: the loop goes on while rows are left and the limit is not reached
LoopRuns ==
    /\ script = "horizons_closest_approach_batch"
    /\ ~b_out.written
    /\ b_next <= Len(b_rows)
    /\ ~(b_args.max # 0 /\ b_checked >= b_args.max)

\* lines 133-139: a row of another source, or without an identifier, is skipped
BatchSkip ==
    /\ LoopRuns
    /\ LET r == b_rows[b_next]
           src == r.source
           ident == IF r.id # "" THEN r.id ELSE r.name
       IN  (src # "" /\ src # "neo") \/ ident = ""
    /\ b_next' = b_next + 1
    /\ UNCHANGED <<script, b_rows, b_args, b_checked, b_results, b_parsed, b_budget, b_out, t_out>>
    /\ UNCHANGED outsideHorizons

\* lines 140-151: the object is queried and its row appended to results
BatchQuery(response) ==
    /\ LoopRuns
    /\ LET r == b_rows[b_next]
           src == r.source
           ident == IF r.id # "" THEN r.id ELSE r.name
       IN  /\ ~((src # "" /\ src # "neo") \/ ident = "")
           /\ b_results' = Append(b_results,
                  ResultRow(ident, r.name, process_object(response), b_args.threshold_au))
    /\ b_checked' = b_checked + 1
    /\ b_parsed' = IF response.ok THEN parse_vectors_text(response.txt) ELSE <<>>
    /\ b_budget' = b_budget - response.points
    /\ b_next' = b_next + 1
    /\ UNCHANGED <<script, b_rows, b_args, b_out, t_out>>
    /\ UNCHANGED outsideHorizons

\* lines 153-160: after the loop every row of results is written
BatchWrite ==
    /\ script = "horizons_closest_approach_batch"
    /\ ~b_out.written
    /\ ~LoopRuns
    /\ b_out' = [written |-> TRUE, rows |-> b_results]
    /\ UNCHANGED <<script, b_rows, b_args, b_next, b_checked, b_results, b_parsed, b_budget, t_out>>
    /\ UNCHANGED outsideHorizons

\* horizons_trajectory.py line 150: the distance of a row
TrajectoryDistance(r) ==
    LET x_km == r.X * AU_KM
        y_km == r.Y * AU_KM
        z_km == r.Z * AU_KM
    IN  Sqrt(x_km * x_km + y_km * y_km + z_km * z_km)

\* horizons_trajectory.py lines 139-152: out_rows
OutRows(rows) ==
    [i \in 1..Len(rows) |->
        [jd |-> rows[i].epoch, X |-> rows[i].X, Y |-> rows[i].Y, Z |-> rows[i].Z,
         distance_km |-> TrajectoryDistance(rows[i])]]

\* horizons_trajectory.py line 155: min(out_rows, key=...), the first of the
\* rows with the least key
RECURSIVE MinRowFrom(_, _, _)
MinRowFrom(out_rows, i, best) ==
    IF i > Len(out_rows) THEN best
    ELSE IF out_rows[i].distance_km < best.distance_km
         THEN MinRowFrom(out_rows, i + 1, out_rows[i])
         ELSE MinRowFrom(out_rows, i + 1, best)

MinRow(out_rows) == MinRowFrom(out_rows, 2, out_rows[1])

\* horizons_trajectory.py lines 132-165: one run for one object; a failed query
\* is an uncaught exception, and the run prints and writes nothing
Trajectory(response) ==
    /\ script = "horizons_trajectory"
    /\ ~t_out.ran
    /\ response.ok
    /\ LET rows == parse_vectors_text(response.txt)
       IN  IF rows = <<>>
           THEN t_out' = [ran |-> TRUE, points |-> 0, min_row |-> <<>>, saved_raw |-> TRUE]
           ELSE t_out' = [ran |-> TRUE, points |-> Len(rows),
                          min_row |-> <<MinRow(OutRows(rows))>>, saved_raw |-> FALSE]
    /\ b_parsed' = parse_vectors_text(response.txt)
    /\ UNCHANGED <<script, b_rows, b_args, b_next, b_checked, b_results, b_budget, b_out>>
    /\ UNCHANGED outsideHorizons

HorizonsNext ==
    \/ BatchSkip
    \/ \E response \in Responses(b_budget) : BatchQuery(response)
    \/ BatchWrite
    \/ \E response \in Responses(MaxPoints) : Trajectory(response)

----------------------------------------------------------------------------
(* find_earth_intersections.py: the MOID of each object, from SBDB.  MOID    *)
(* and threshold are in units of 0.0001 AU: 0.001 AU is 10.  The model is   *)
(* of main as lines 89-174 define it.                                        *)

\* line 30, re.sub(r'^\(|\)$', '', s), on the identifiers drawn
StripParens(s) ==
    CASE s = "(2020 AB)" -> "2020 AB"
      [] s = "(2010 PK9)" -> "2010 PK9"
      [] OTHER -> s

\* lines 26-31: sanitize_id; "" is None
sanitize_id(s) == IF s = "" THEN "" ELSE StripParens(s)

\* line 121: orig_id.startswith('(') and orig_id.endswith(')')
HasParens(s) == s \in {"(2020 AB)", "(2010 PK9)"}

\* line 124: orig_id.isdigit() and len(orig_id) > 6
IsLongNumeric(s) == s \in {"2000433", "3542519"}

\* line 129: str(int(orig_id) % 1000000)
ShortOf(s) ==
    CASE s = "2000433" -> "433"
      [] s = "3542519" -> "542519"
      [] OTHER -> s

\* lines 41 and 135, re.match(r'^\s*(\d+)', name): group 1, "" for no match
LeadingDigits(name) == IF name = "433 Eros" THEN "433" ELSE ""

\* what NeoWs answers when asked about an id: nothing (an exception of
\* requests), or the name and designation of the object
NoNeoWs == [ok |-> FALSE, name |-> "", designation |-> ""]
NeoWsAnswers(neo_id) ==
    CASE neo_id = "2000433" -> {NoNeoWs, [ok |-> TRUE, name |-> "433 Eros", designation |-> "433"]}
      [] neo_id = "3542519" ->
            {NoNeoWs, [ok |-> TRUE, name |-> "(2010 PK9)", designation |-> "2010 PK9"],
             [ok |-> TRUE, name |-> "(2010 PK9)", designation |-> ""]}
      [] OTHER -> {NoNeoWs}

\* lines 34-48: resolve_with_neows, given the answer of NeoWs; "" is None
resolve_with_neows(answer) ==
    IF ~answer.ok THEN ""
    ELSE IF LeadingDigits(answer.name) # "" THEN LeadingDigits(answer.name)
    ELSE answer.designation

Range(q) == {q[n] : n \in 1..Len(q)}

\* lines 119-138: the identifiers to try for a row, in order
Variants(orig_id, name, answer) ==
    LET v1 == <<orig_id>>
        v2 == IF HasParens(orig_id) THEN Append(v1, StripParens(orig_id)) ELSE v1
        resolved == resolve_with_neows(answer)
        v3 == IF resolved # "" THEN <<resolved>> \o v2 ELSE v2
        v4 == IF ShortOf(orig_id) \notin Range(v3) THEN Append(v3, ShortOf(orig_id)) ELSE v3
        v5 == IF IsLongNumeric(orig_id) THEN v4 ELSE v2
        n == LeadingDigits(name)
    IN  IF n # "" /\ n \notin Range(v5) THEN Append(v5, n) ELSE v5

\* a value of the SBDB JSON: one float() accepts, or one it rejects (None, 'n/a')
Num(n) == [ok |-> TRUE, val |-> n]
BadValue == [ok |-> FALSE, val |-> 0]
NoMoid == -1    \* None

\* the orbit object of an answer, as the list of its items
SbdbOrbits ==
    {<<>>,
     <<[k |-> "moid", v |-> Num(5)]>>,
     <<[k |-> "moid", v |-> Num(10)]>>,
     <<[k |-> "moid", v |-> Num(20)]>>,
     <<[k |-> "moid", v |-> BadValue]>>,
     <<[k |-> "e", v |-> Num(2)], [k |-> "MOID", v |-> Num(11)]>>,
     <<[k |-> "moid", v |-> BadValue], [k |-> "closest_approach_distance", v |-> Num(9)]>>,
     <<[k |-> "e", v |-> Num(2)], [k |-> "moid_jup", v |-> Num(20)]>>}

\* the JSON of an answer: not a dict, or a dict with an orbit under 'object'
\* or, as SBDB sends it, at the top level
NotDict == [isdict |-> FALSE, object_orbit |-> <<>>, orbit |-> <<>>]
SbdbJson ==
    {NotDict}
    \cup {[isdict |-> TRUE, object_orbit |-> o, orbit |-> <<>>] : o \in SbdbOrbits}
    \cup {[isdict |-> TRUE, object_orbit |-> <<>>, orbit |-> <<[k |-> "moid", v |-> Num(5)]>>]}

\* lines 51-64: query_sbdb_once gives (json, None) or (None, error); err "" is None
SbdbAnswers ==
    {[j |-> NotDict, err |-> "HTTP 400"], [j |-> NotDict, err |-> "timed out"]}
    \cup {[j |-> json, err |-> ""] : json \in SbdbJson}

\* lines 73-78: the first of the common keys whose value float() accepts
RECURSIVE TryKeys(_, _, _)
TryKeys(orbit, keys, n) ==
    IF n > Len(keys) THEN NoMoid
    ELSE LET hits == {m \in 1..Len(orbit) : orbit[m].k = keys[n] /\ orbit[m].v.ok}
         IN  IF hits # {} THEN orbit[CHOOSE m \in hits : TRUE].v.val
             ELSE TryKeys(orbit, keys, n + 1)

\* line 81: 'moid' in k.lower()
NamesMoid(k) == k \in {"moid", "MOID", "moid_jup"}

\* lines 80-85: the first item whose key names a moid and whose value float() accepts
RECURSIVE AnyMoidKey(_, _)
AnyMoidKey(orbit, n) ==
    IF n > Len(orbit) THEN NoMoid
    ELSE IF NamesMoid(orbit[n].k) /\ orbit[n].v.ok THEN orbit[n].v.val
    ELSE AnyMoidKey(orbit, n + 1)

\* lines 67-86: extract_moid_from_sbdb
extract_moid_from_sbdb(json_obj) ==
    IF ~json_obj.isdict THEN NoMoid
    ELSE LET orbit == json_obj.object_orbit
             common == TryKeys(orbit, <<"moid", "MOID", "closest_approach_distance">>, 1)
         IN  IF common # NoMoid THEN common ELSE AnyMoidKey(orbit, 1)

\* moid < threshold in place of moid <= threshold
MoidIntersectsStrict(moid, threshold_au) == moid < threshold_au

\* line 153: 'intersects': moid <= args.threshold_au
MoidIntersects(moid, threshold_au) == moid <= threshold_au

\* lines 259-264, the classification of the block after line 178
trailing_intersects(moid, threshold) ==
    IF moid = NoMoid THEN "unknown"
    ELSE IF moid <= threshold THEN "yes" ELSE "no"

\* line 153: the row of an object whose MOID was obtained
FoundRow(i, orig_id, v, name, moid, threshold_au) ==
    [row_index |-> i, orig_id |-> orig_id, tried_id |-> v, name |-> name,
     moid_au |-> moid, moid_km |-> moid * AU_KM,
     intersects |-> MoidIntersects(moid, threshold_au), error |-> ""]

\* line 161: the row of an object whose MOID was not obtained
NotFoundRow(i, orig_id, variants, name, last_error) ==
    [row_index |-> i, orig_id |-> orig_id, tried_id |-> variants[1], name |-> name,
     moid_au |-> "", moid_km |-> "",
     intersects |-> FALSE, error |-> IF last_error # "" THEN last_error ELSE "not_found"]

\* the rows of the input CSV: NeoWs objects with a long numeric id, an object
\* with only a name in parentheses, a fireball, a row with neither id nor name
MoidCsvRows ==
    {[source |-> "neo", id |-> "2000433", name |-> "433 Eros"],
     [source |-> "neo", id |-> "3542519", name |-> "(2010 PK9)"],
     [source |-> "", id |-> "", name |-> "(2020 AB)"],
     [source |-> "fireball", id |-> "", name |-> ""],
     [source |-> "neo", id |-> "", name |-> ""]}

\* --max-calls: 0 is no limit
MaxCallsValues == {0, 1, 2}
\* --threshold-au, in units of 0.0001 AU (the default is 10)
MoidThresholds == {10}

\* lines 89-107: the arguments are parsed and the input CSV is read
MoidInit ==
    /\ script = "find_earth_intersections"
    /\ m_rows \in SeqsUpTo(MoidCsvRows, MaxRows)
    /\ m_args \in [max_calls : MaxCallsValues, threshold_au : MoidThresholds]
    /\ m_i = 1
    /\ m_pc = "rows"
    /\ m_variants = <<>>
    /\ m_v = 1
    /\ m_found = FALSE
    /\ m_last_error = ""
    /\ m_calls = 0
    /\ m_results = <<>>
    /\ m_out = [written |-> FALSE, rows |-> <<>>]
    /\ cur = NoCall
    /\ console = "none"
    /\ predicted = <<>>
    /\ b_rows = <<>>
    /\ b_args = [max |-> 0, threshold_au |-> 0]
    /\ b_next = 0
    /\ b_checked = 0
    /\ b_results = <<>>
    /\ b_parsed = <<>>
    /\ b_budget = 0
    /\ b_out = [written |-> FALSE, rows |-> <<>>]
    /\ t_out = [ran |-> FALSE, points |-> 0, min_row |-> <<>>, saved_raw |-> FALSE]
    /\ w_call = "none"
    /\ w_arg = <<>>
    /\ w_ret = [raised |-> "", value |-> <<>>]
    /\ w_csv = [written |-> FALSE, rows |-> <<>>]
    /\ w_raw = FALSE
    /\ c_world = <<>>
    /\ c_stage = "neows"
    /\ c_page = 0
    /\ c_offset = 0
    /\ c_collected = <<>>
    /\ c_seen_keys = {}
    /\ c_counts = [neo |-> 0, sbdb |-> 0, fireball |-> 0, meteorite |-> 0, horizons |-> 0]
    /\ c_neo_ids = <<>>
    /\ c_made = 0
    /\ c_requests = 0
    /\ c_out = [written |-> FALSE, rows |-> <<>>]
    /\ g_in = [exists |-> FALSE, rows |-> <<>>]
    /\ g_out = [written |-> FALSE, rows |-> <<>>, exit |-> -1]
    /\ r_next = 1
    /\ r_running = {}
    /\ r_log = <<>>

\* BudgetSpent with calls > args.max_calls
BudgetSpentLate == m_args.max_calls # 0 /\ m_calls > m_args.max_calls

\* lines 109 and 143: args.max_calls and calls >= args.max_calls
BudgetSpent == m_args.max_calls # 0 /\ m_calls >= m_args.max_calls

\* lines 108-110: the loop over the rows goes on
MoidLoopRuns ==
    /\ m_pc = "rows"
    /\ m_i <= Len(m_rows)
    /\ ~BudgetSpent

\* line 114: orig_id of the row at hand
OrigId(r) == sanitize_id(IF r.id # "" THEN r.id ELSE r.name)

\* lines 111-117: a row of another source, or without an identifier, is skipped
MoidSkip ==
    /\ MoidLoopRuns
    /\ LET r == m_rows[m_i]
       IN  (r.source # "" /\ r.source # "neo") \/ OrigId(r) = ""
    /\ m_i' = m_i + 1
    /\ UNCHANGED <<m_rows, m_args, m_pc, m_variants, m_v, m_found, m_last_error, m_calls,
                   m_results, m_out>>
    /\ UNCHANGED outsideMoid

\* lines 111-141: the variants of a row are built, NeoWs asked for a long id
MoidStartRow(answer) ==
    /\ MoidLoopRuns
    /\ LET r == m_rows[m_i]
       IN  /\ ~((r.source # "" /\ r.source # "neo") \/ OrigId(r) = "")
           /\ answer \in (IF IsLongNumeric(OrigId(r)) THEN NeoWsAnswers(OrigId(r))
                          ELSE {NoNeoWs})
           /\ m_variants' = Variants(OrigId(r), r.name, answer)
    /\ m_v' = 1
    /\ m_found' = FALSE
    /\ m_last_error' = ""
    /\ m_pc' = "variants"
    /\ UNCHANGED <<m_rows, m_args, m_i, m_calls, m_results, m_out>>
    /\ UNCHANGED outsideMoid

\* lines 142-144: the loop over the variants goes on
VariantsRun ==
    /\ m_pc = "variants"
    /\ ~m_found
    /\ m_v <= Len(m_variants)
    /\ ~BudgetSpent

\* lines 145-158: one SBDB query, for one variant
MoidQuery(answer) ==
    /\ VariantsRun
    /\ m_calls' = m_calls + 1
    /\ LET r == m_rows[m_i]
           moid == extract_moid_from_sbdb(answer.j)
       IN  IF answer.err # ""
           THEN /\ m_last_error' = answer.err
                /\ m_v' = m_v + 1
                /\ UNCHANGED <<m_results, m_found>>
           ELSE IF moid # NoMoid
           THEN /\ m_results' = Append(m_results,
                       FoundRow(m_i - 1, OrigId(r), m_variants[m_v], r.name, moid,
                                m_args.threshold_au))
                /\ m_found' = TRUE
                /\ UNCHANGED <<m_last_error, m_v>>
           ELSE /\ m_last_error' = "no_moid"
                /\ m_v' = m_v + 1
                /\ UNCHANGED <<m_results, m_found>>
    /\ UNCHANGED <<m_rows, m_args, m_i, m_pc, m_variants, m_out>>
    /\ UNCHANGED outsideMoid

\* lines 160-161: after the variants, the row of an object not found
MoidEndRow ==
    /\ m_pc = "variants"
    /\ ~VariantsRun
    /\ LET r == m_rows[m_i]
       IN  m_results' = IF m_found THEN m_results
                        ELSE Append(m_results,
                                 NotFoundRow(m_i - 1, OrigId(r), m_variants, r.name,
                                             m_last_error))
    /\ m_i' = m_i + 1
    /\ m_pc' = "rows"
    /\ UNCHANGED <<m_rows, m_args, m_variants, m_v, m_found, m_last_error, m_calls, m_out>>
    /\ UNCHANGED outsideMoid

\* lines 163-174: after the loop every row of results is written
MoidWrite ==
    /\ m_pc = "rows"
    /\ ~MoidLoopRuns
    /\ m_out' = [written |-> TRUE, rows |-> m_results]
    /\ m_pc' = "done"
    /\ UNCHANGED <<m_rows, m_args, m_i, m_variants, m_v, m_found, m_last_error, m_calls,
                   m_results>>
    /\ UNCHANGED outsideMoid

MoidNext ==
    \/ MoidSkip
    \/ \E answer \in UNION {NeoWsAnswers(id) : id \in {"2000433", "3542519", ""}} :
           MoidStartRow(answer)
    \/ \E answer \in SbdbAnswers : MoidQuery(answer)
    \/ MoidEndRow
    \/ MoidWrite

----------------------------------------------------------------------------
(* meteorite_api.py: the Meteorite Landings table.  A record is given with  *)
(* all the keys the code reads; "" is a key that is absent or empty (every  *)
(* read is item.get(key, "")), NoneValue a key whose value is None.         *)

MaxRecords == 2
desired == 100

NoneValue == "<None>"
\* a geolocation: {} or absent, or a point with coordinates [lon, lat]
NoGeo == [coordinates |-> <<>>]
Point(lon, lat) == [coordinates |-> <<lon, lat>>]

\* lines 26-29
LOCAL_SAMPLE ==
    <<[id |-> "1", name |-> "Aachen", nametype |-> "", recclass |-> "L5", mass |-> "21",
       year |-> "1880-01-01T00:00:00.000", reclat |-> "50.775", reclong |-> "6.08333",
       geolocation |-> NoGeo],
      [id |-> "2", name |-> "Aarhus", nametype |-> "", recclass |-> "H6", mass |-> "720",
       year |-> "1951-01-01T00:00:00.000", reclat |-> "56.18333", reclong |-> "10.23333",
       geolocation |-> NoGeo]>>

\* the records drawn: the two of the test, one with a None mass, a short year
\* and no position at all, one with spaces before the year
MeteoriteItems ==
    {[id |-> "1", name |-> "TestRock", nametype |-> "Valid", recclass |-> "L5",
      mass |-> "1234", year |-> "1990-01-01T00:00:00.000", reclat |-> "10.0",
      reclong |-> "20.0", geolocation |-> Point("20.0", "10.0")],
     [id |-> "2", name |-> "NoGeo", nametype |-> "Valid", recclass |-> "H6",
      mass |-> "5,000", year |-> "2001-05-05T00:00:00.000", reclat |-> "",
      reclong |-> "", geolocation |-> Point("-45.5", "60.25")],
     [id |-> "3", name |-> "Bare", nametype |-> "", recclass |-> "",
      mass |-> NoneValue, year |-> "880", reclat |-> "", reclong |-> "",
      geolocation |-> NoGeo],
     [id |-> "", name |-> "Spaced", nametype |-> "Relict", recclass |-> "Iron",
      mass |-> "", year |-> "  1951-01-01", reclat |-> "56.18333", reclong |-> "",
      geolocation |-> NoGeo]}

\* lines 141-142 and 77-78: year_raw.strip()[:4] when len(year_raw) >= 4
YearOf(year_raw) ==
    CASE year_raw = "1990-01-01T00:00:00.000" -> "1990"
      [] year_raw = "2001-05-05T00:00:00.000" -> "2001"
      [] year_raw = "1880-01-01T00:00:00.000" -> "1880"
      [] year_raw = "1951-01-01T00:00:00.000" -> "1951"
      [] year_raw = "  1951-01-01" -> "1951"
      [] OTHER -> ""

\* line 100: sample.get("year", "")[:4]
First4(year_raw) ==
    CASE year_raw = "1880-01-01T00:00:00.000" -> "1880"
      [] year_raw = "1951-01-01T00:00:00.000" -> "1951"
      [] year_raw = "  1951-01-01" -> "  19"
      [] year_raw = "880" -> "880"
      [] OTHER -> YearOf(year_raw)

\* line 138: "" if mass_raw is None else str(mass_raw).replace(",", "")
MassOf(mass_raw) ==
    CASE mass_raw = NoneValue -> ""
      [] mass_raw = "5,000" -> "5000"
      [] OTHER -> mass_raw

\* what csv.writer writes for a value: '' for None
Cell(v) == IF v = NoneValue THEN "" ELSE v

\* lines 144-152 and 80-89: reclat and reclong, from the coordinates [lon, lat]
\* of the geolocation when one of them is empty
LatOf(item) ==
    IF (item.reclat = "" \/ item.reclong = "") /\ Len(item.geolocation.coordinates) >= 2
       /\ item.reclat = ""
    THEN item.geolocation.coordinates[2] ELSE item.reclat
LongOf(item) ==
    IF (item.reclat = "" \/ item.reclong = "") /\ Len(item.geolocation.coordinates) >= 2
       /\ item.reclong = ""
    THEN item.geolocation.coordinates[1] ELSE item.reclong

\* lines 154-157: json.dumps(geol)
GeolStr(geol) == [json |-> geol]

\* lines 130 and 68
CsvHeaders ==
    <<"id", "name", "nametype", "recclass", "mass (g)", "year", "reclat", "reclong",
      "geolocation">>
TableHeaders == <<"id", "name", "recclass", "mass_g", "year", "reclat", "reclong">>

\* lines 133-159: the row of a record in write_meteorite_csv
CsvRow(item) ==
    <<item.id, item.name, item.nametype, item.recclass, MassOf(item.mass),
      YearOf(item.year), LatOf(item), LongOf(item), GeolStr(item.geolocation)>>

\* lines 71-91: the row of a record in make_meteorite_table
TableRow(item) ==
    <<item.id, item.name, item.recclass, Cell(item.mass), YearOf(item.year), LatOf(item),
      LongOf(item)>>

\* line 100: a row of padding
PadRow(sample) ==
    <<sample.id, sample.name, sample.recclass, sample.mass, First4(sample.year),
      sample.reclat, sample.reclong>>

\* write_meteorite_csv padding to 100 rows as make_meteorite_table does
write_meteorite_csvPadded(data) ==
    LET rows == [n \in 1..Len(data) |-> CsvRow(data[n])]
        padded == [n \in 1..desired |->
                      IF n <= Len(rows) THEN rows[n]
                      ELSE CsvRow(LOCAL_SAMPLE[((n - Len(rows) - 1) % Len(LOCAL_SAMPLE)) + 1])]
    IN  <<CsvHeaders>> \o padded

\* lines 123-164: write_meteorite_csv, the rows of the file it writes
write_meteorite_csv(data) ==
    LET rows == [n \in 1..Len(data) |-> CsvRow(data[n])]
    IN  <<CsvHeaders>> \o rows

\* what Socrata answers to the GET of line 42: an exception of requests, or a
\* status and a body; html is a body that starts with '<!doctype html'
RequestFailed == [exc |-> TRUE, status |-> 0, html |-> FALSE, body |-> "", items |-> <<>>]
Answer(status, html, body, items) ==
    [exc |-> FALSE, status |-> status, html |-> html, body |-> body, items |-> items]
\* a list longer than the table
LongList == [n \in 1..(desired + 1) |-> LOCAL_SAMPLE[1]]
SocrataLists == SeqsUpTo(MeteoriteItems, 1) \cup {LOCAL_SAMPLE, LongList}
SocrataAnswers ==
    {RequestFailed}
    \cup {Answer(st, TRUE, "not_json", <<>>) : st \in {200, 404, 500}}
    \cup {Answer(st, FALSE, "not_json", <<>>) : st \in {200, 404, 500}}
    \cup {Answer(st, FALSE, "dict", <<>>) : st \in {200, 404}}
    \cup {Answer(st, FALSE, "list", items) : st \in {200, 404}, items \in SocrataLists}

\* what fetch_meteorites returns: a list, or the dict of a JSON object
ListOf(items) == [kind |-> "list", items |-> items]
JsonObject == [kind |-> "dict", items |-> <<>>]

\* fetch_meteorites without the test of the status
fetch_meteoritesAnyStatus(resp) ==
    IF resp.exc THEN ListOf(<<>>)
    ELSE IF ~resp.html
    THEN IF resp.body = "list" THEN ListOf(resp.items)
         ELSE IF resp.body = "dict" THEN JsonObject
         ELSE ListOf(<<>>)
    ELSE ListOf(<<>>)

\* lines 32-56: fetch_meteorites, given the answer of Socrata
fetch_meteorites(resp) ==
    IF resp.exc THEN ListOf(<<>>)
    ELSE IF resp.status = 200 /\ ~resp.html
    THEN IF resp.body = "list" THEN ListOf(resp.items)
         ELSE IF resp.body = "dict" THEN JsonObject
         ELSE ListOf(<<>>)
    ELSE ListOf(<<>>)

\* lines 59-120: make_meteorite_table, given what fetch_meteorites returned:
\* the rows written, whether the raw JSON is saved, and the exception raised
\* (iterating a dict gives its keys, and a str has no get)
make_meteorite_table(fetched) ==
    LET used_local == fetched.items = <<>> /\ fetched.kind = "list"
        data == IF used_local THEN LOCAL_SAMPLE ELSE fetched.items
        rows == [n \in 1..Len(data) |-> TableRow(data[n])]
        padded == [n \in 1..desired |->
                      IF n <= Len(rows) THEN rows[n]
                      ELSE PadRow(LOCAL_SAMPLE[((n - Len(rows) - 1) % Len(LOCAL_SAMPLE)) + 1])]
    IN  IF fetched.kind = "dict"
        THEN [raised |-> "AttributeError", rows |-> <<>>, raw |-> FALSE]
        ELSE [raised |-> "", rows |-> <<TableHeaders>> \o padded, raw |-> ~used_local]

\* the module is imported; no file is written yet
MeteoriteInit ==
    /\ script = "meteorite_api"
    /\ w_call = "none"
    /\ w_arg = <<>>
    /\ w_ret = [raised |-> "", value |-> <<>>]
    /\ w_csv = [written |-> FALSE, rows |-> <<>>]
    /\ w_raw = FALSE
    /\ cur = NoCall
    /\ console = "none"
    /\ predicted = <<>>
    /\ b_rows = <<>>
    /\ b_args = [max |-> 0, threshold_au |-> 0]
    /\ b_next = 0
    /\ b_checked = 0
    /\ b_results = <<>>
    /\ b_parsed = <<>>
    /\ b_budget = 0
    /\ b_out = [written |-> FALSE, rows |-> <<>>]
    /\ t_out = [ran |-> FALSE, points |-> 0, min_row |-> <<>>, saved_raw |-> FALSE]
    /\ m_rows = <<>>
    /\ m_args = [max_calls |-> 0, threshold_au |-> 0]
    /\ m_i = 1
    /\ m_pc = "rows"
    /\ m_variants = <<>>
    /\ m_v = 1
    /\ m_found = FALSE
    /\ m_last_error = ""
    /\ m_calls = 0
    /\ m_results = <<>>
    /\ m_out = [written |-> FALSE, rows |-> <<>>]
    /\ c_world = <<>>
    /\ c_stage = "neows"
    /\ c_page = 0
    /\ c_offset = 0
    /\ c_collected = <<>>
    /\ c_seen_keys = {}
    /\ c_counts = [neo |-> 0, sbdb |-> 0, fireball |-> 0, meteorite |-> 0, horizons |-> 0]
    /\ c_neo_ids = <<>>
    /\ c_made = 0
    /\ c_requests = 0
    /\ c_out = [written |-> FALSE, rows |-> <<>>]
    /\ g_in = [exists |-> FALSE, rows |-> <<>>]
    /\ g_out = [written |-> FALSE, rows |-> <<>>, exit |-> -1]
    /\ r_next = 1
    /\ r_running = {}
    /\ r_log = <<>>

\* a call of write_meteorite_csv(data)
WriteMeteoriteCsv(data) ==
    /\ w_call' = "write_meteorite_csv"
    /\ w_arg' = data
    /\ w_ret' = [raised |-> "", value |-> <<>>]
    /\ w_csv' = [written |-> TRUE, rows |-> write_meteorite_csv(data)]
    /\ UNCHANGED w_raw
    /\ UNCHANGED outsideMeteorite

\* a call of fetch_meteorites()
FetchMeteorites(resp) ==
    /\ w_call' = "fetch_meteorites"
    /\ w_arg' = resp
    /\ w_ret' = [raised |-> "", value |-> fetch_meteorites(resp)]
    /\ UNCHANGED <<w_csv, w_raw>>
    /\ UNCHANGED outsideMeteorite

\* a call of make_meteorite_table()
MakeMeteoriteTable(resp) ==
    /\ w_call' = "make_meteorite_table"
    /\ w_arg' = resp
    /\ LET fetched == fetch_meteorites(resp)
           made == make_meteorite_table(fetched)
       IN  /\ w_ret' = [raised |-> made.raised, value |-> fetched]
           /\ IF made.raised # ""
              THEN UNCHANGED <<w_csv, w_raw>>
              ELSE /\ w_csv' = [written |-> TRUE, rows |-> made.rows]
                   /\ w_raw' = (w_raw \/ made.raw)
    /\ UNCHANGED outsideMeteorite

MeteoriteNext ==
    \/ \E data \in SeqsUpTo(MeteoriteItems, MaxRecords) : WriteMeteoriteCsv(data)
    \/ \E resp \in SocrataAnswers : FetchMeteorites(resp)
    \/ \E resp \in SocrataAnswers : MakeMeteoriteTable(resp)

----------------------------------------------------------------------------
(* Intersection/fetch_and_combine_originals.py: rows of five services are   *)
(* combined until TARGET unique rows are collected.  An id or a name is a    *)
(* number here: the string of digits it is in the source (str(len(collected))*)
(* is the number len(collected)), NA for 'N/A' and NoValue for None.         *)

TARGET == 1000
neo_page_size == 20
neo_max_page == 200
meteorite_page_size == 500
max_sbdb == 300

NA == -1
NoValue == 0

\* a row of collected, with the columns the dedup key reads
Row(source, id, name) == [source |-> source, id |-> id, name |-> name]

\* line 41: the dedup key of a row
KeyOf(d, collected) ==
    <<d.source, IF d.id # NoValue THEN d.id
                ELSE IF d.name # NoValue THEN d.name
                ELSE Len(collected)>>

\* lines 40-47: add_row, on the state [collected, seen_keys, counts]
add_row(st, d) ==
    LET key == KeyOf(d, st.collected)
    IN  IF key \in st.seen_keys THEN st
        ELSE [collected |-> Append(st.collected, d),
              seen_keys |-> st.seen_keys \cup {key},
              counts |-> [st.counts EXCEPT ![d.source] = @ + 1]]

\* AddUntilTarget breaking one row late, at len(collected) > TARGET
RECURSIVE AddPastTarget(_, _, _, _)
AddPastTarget(st, items, lo, hi) ==
    IF lo > hi \/ Len(st.collected) > TARGET THEN st
    ELSE IF lo = hi THEN add_row(st, items[lo])
    ELSE LET mid == (lo + hi) \div 2
             left == AddPastTarget(st, items, lo, mid)
         IN  IF Len(left.collected) > TARGET THEN left
             ELSE AddPastTarget(left, items, mid + 1, hi)

\* lines 68-91, 109-151, 171-183: the rows lo..hi of an answer are added in
\* order until len(collected) >= TARGET (the break); the range is walked by
\* halves, the left half first
RECURSIVE AddUntilTarget(_, _, _, _)
AddUntilTarget(st, items, lo, hi) ==
    IF lo > hi \/ Len(st.collected) >= TARGET THEN st
    ELSE IF lo = hi THEN add_row(st, items[lo])
    ELSE LET mid == (lo + hi) \div 2
             left == AddUntilTarget(st, items, lo, mid)
         IN  IF Len(left.collected) >= TARGET THEN left
             ELSE AddUntilTarget(left, items, mid + 1, hi)

\* lines 254-278: the rows of the Horizons table are added, the length of
\* collected being tested after each
RECURSIVE AddAndTest(_, _, _)
AddAndTest(st, items, n) ==
    IF n > Len(items) THEN st
    ELSE LET added == add_row(st, items[n])
         IN  IF Len(added.collected) >= TARGET THEN added
             ELSE AddAndTest(added, items, n + 1)

Min(a, b) == IF a < b THEN a ELSE b

\* what the services hold and answer during a run:
\*   neo_total NEOs in NeoWs, the first neo_dups of the second page repeating
\*   ids of the first, an exception at page neo_fail_at (-1: none), neo_repeat
\*   when NeoWs sends its first page whatever the page asked;
\*   fireball_rows rows of the Fireball API, or an exception;
\*   met_total meteorites of Socrata, the first met_anon with neither id nor
\*   name, or an exception;
\*   SBDB answering every query or none; Horizons giving horizons_rows
\*   position lines, or an exception
World(nt, nd, nf, nr, fok, fr, mok, mt, ma, sok, hok, hr) ==
    [neo_total |-> nt, neo_dups |-> nd, neo_fail_at |-> nf, neo_repeat |-> nr,
     fireball_ok |-> fok, fireball_rows |-> fr,
     met_ok |-> mok, met_total |-> mt, met_anon |-> ma,
     sbdb_ok |-> sok, horizons_ok |-> hok, horizons_rows |-> hr]

Worlds ==
    {World(1030, 5, -1, FALSE, TRUE, 3, TRUE, 1200, 0, TRUE, TRUE, 3),
     World(990, 0, -1, FALSE, TRUE, 3, TRUE, 1200, 0, TRUE, TRUE, 3),
     World(40, 0, -1, FALSE, FALSE, 0, TRUE, 700, 2, TRUE, TRUE, 3),
     World(40, 0, 0, FALSE, TRUE, 3, FALSE, 0, 0, TRUE, FALSE, 0),
     World(40, 0, -1, TRUE, TRUE, 0, TRUE, 0, 0, FALSE, TRUE, 0),
     World(998, 0, -1, FALSE, TRUE, 3, FALSE, 0, 0, TRUE, TRUE, 3),
     World(998, 0, -1, FALSE, TRUE, 3, FALSE, 0, 0, FALSE, TRUE, 3),
     World(60, 0, 2, FALSE, TRUE, 3, TRUE, 1200, 3, TRUE, TRUE, 3)}

\* the name of an object, a number apart from every id
NameOf(id) == 1000000 + id

\* lines 54-67: the answer of NeoWs browse to a page: the exception, or neos
NeoWsPage(w, page) ==
    LET p == IF w.neo_repeat THEN 0 ELSE page
        first == p * neo_page_size + 1
        last == Min(w.neo_total, first + neo_page_size - 1)
        id(k) == IF p = 1 /\ k <= w.neo_dups THEN k ELSE first + k - 1
    IN  [ok |-> page # w.neo_fail_at,
         items |-> IF last < first THEN <<>>
                   ELSE [k \in 1..(last - first + 1) |-> Row("neo", id(k), NameOf(id(k)))]]

\* lines 102-151: the answer of the Fireball API: its rows have no id and no name
FireballData(w) ==
    [ok |-> w.fireball_ok, items |-> [k \in 1..w.fireball_rows |-> Row("fireball", NA, NA)]]

\* lines 161-183: the answer of Socrata to $limit and $offset
SocrataPage(w, offset) ==
    LET first == offset + 1
        last == Min(w.met_total, offset + meteorite_page_size)
        item(j) == IF j <= w.met_anon THEN Row("meteorite", NoValue, NoValue)
                   ELSE Row("meteorite", j - w.met_anon, NameOf(j - w.met_anon))
    IN  [ok |-> w.met_ok,
         items |-> IF last < first THEN <<>>
                   ELSE [k \in 1..(last - first + 1) |-> item(first + k - 1)]]

\* lines 198-231: the answer of SBDB about a NEO, as the row made of it
SbdbRow(w, nid) == [ok |-> w.sbdb_ok, items |-> <<Row("sbdb", NA, NameOf(nid))>>]

\* lines 246-276: the position lines of the Horizons table, as the rows made of them
HorizonsRows(w) ==
    [ok |-> w.horizons_ok, items |-> [k \in 1..w.horizons_rows |-> Row("horizons", NA, NA)]]

\* line 191: neo_ids
NeoIds(collected) ==
    LET picked == SelectSeq(collected, LAMBDA r : r.source = "neo" /\ r.id # NoValue)
    IN  [k \in 1..Len(picked) |-> picked[k].id]

\* lines 36-52: the module starts with nothing collected
CombineInit ==
    /\ script = "fetch_and_combine_originals"
    /\ c_world \in Worlds
    /\ c_stage = "neows"
    /\ c_page = 0
    /\ c_offset = 0
    /\ c_collected = <<>>
    /\ c_seen_keys = {}
    /\ c_counts = [neo |-> 0, sbdb |-> 0, fireball |-> 0, meteorite |-> 0, horizons |-> 0]
    /\ c_neo_ids = <<>>
    /\ c_made = 0
    /\ c_requests = 0
    /\ c_out = [written |-> FALSE, rows |-> <<>>]
    /\ g_in = [exists |-> FALSE, rows |-> <<>>]
    /\ g_out = [written |-> FALSE, rows |-> <<>>, exit |-> -1]
    /\ r_next = 1
    /\ r_running = {}
    /\ r_log = <<>>
    /\ cur = NoCall
    /\ console = "none"
    /\ predicted = <<>>
    /\ b_rows = <<>>
    /\ b_args = [max |-> 0, threshold_au |-> 0]
    /\ b_next = 0
    /\ b_checked = 0
    /\ b_results = <<>>
    /\ b_parsed = <<>>
    /\ b_budget = 0
    /\ b_out = [written |-> FALSE, rows |-> <<>>]
    /\ t_out = [ran |-> FALSE, points |-> 0, min_row |-> <<>>, saved_raw |-> FALSE]
    /\ m_rows = <<>>
    /\ m_args = [max_calls |-> 0, threshold_au |-> 0]
    /\ m_i = 1
    /\ m_pc = "rows"
    /\ m_variants = <<>>
    /\ m_v = 1
    /\ m_found = FALSE
    /\ m_last_error = ""
    /\ m_calls = 0
    /\ m_results = <<>>
    /\ m_out = [written |-> FALSE, rows |-> <<>>]
    /\ w_call = "none"
    /\ w_arg = <<>>
    /\ w_ret = [raised |-> "", value |-> <<>>]
    /\ w_csv = [written |-> FALSE, rows |-> <<>>]
    /\ w_raw = FALSE

\* collected, seen_keys and counts as one state, and its assignment
Collecting == [collected |-> c_collected, seen_keys |-> c_seen_keys, counts |-> c_counts]
Collect(st) ==
    /\ c_collected' = st.collected
    /\ c_seen_keys' = st.seen_keys
    /\ c_counts' = st.counts

\* lines 53-97: one turn of the NeoWs browse loop
NeoWsBrowse ==
    /\ c_stage = "neows"
    /\ Len(c_collected) < TARGET
    /\ c_requests' = c_requests + 1
    /\ LET answer == NeoWsPage(c_world, c_page)
       IN  IF ~answer.ok \/ answer.items = <<>>
           THEN /\ c_stage' = "fireball"
                /\ UNCHANGED <<c_collected, c_seen_keys, c_counts, c_page>>
           ELSE /\ Collect(AddUntilTarget(Collecting, answer.items, 1, Len(answer.items)))
                /\ c_page' = c_page + 1
                /\ c_stage' = IF c_page + 1 > neo_max_page THEN "fireball" ELSE "neows"
    /\ UNCHANGED <<c_world, c_offset, c_neo_ids, c_made, c_out>>
    /\ UNCHANGED outsideCombine

\* line 53: the NeoWs loop ends with TARGET rows collected
NeoWsFull ==
    /\ c_stage = "neows"
    /\ Len(c_collected) >= TARGET
    /\ c_stage' = "fireball"
    /\ UNCHANGED <<c_world, c_page, c_offset, c_collected, c_seen_keys, c_counts, c_neo_ids,
                   c_made, c_requests, c_out>>
    /\ UNCHANGED outsideCombine

\* lines 100-153: the Fireball stage
Fireball ==
    /\ c_stage = "fireball"
    /\ Len(c_collected) < TARGET
    /\ c_requests' = c_requests + 1
    /\ LET answer == FireballData(c_world)
       IN  IF answer.ok THEN Collect(AddUntilTarget(Collecting, answer.items, 1, Len(answer.items)))
           ELSE UNCHANGED <<c_collected, c_seen_keys, c_counts>>
    /\ c_stage' = "meteorite"
    /\ UNCHANGED <<c_world, c_page, c_offset, c_neo_ids, c_made, c_out>>
    /\ UNCHANGED outsideCombine

\* line 100: the Fireball stage is skipped
FireballSkipped ==
    /\ c_stage = "fireball"
    /\ Len(c_collected) >= TARGET
    /\ c_stage' = "meteorite"
    /\ UNCHANGED <<c_world, c_page, c_offset, c_collected, c_seen_keys, c_counts, c_neo_ids,
                   c_made, c_requests, c_out>>
    /\ UNCHANGED outsideCombine

\* lines 156-185: one turn of the Socrata loop
Meteorite ==
    /\ c_stage = "meteorite"
    /\ Len(c_collected) < TARGET
    /\ c_requests' = c_requests + 1
    /\ LET answer == SocrataPage(c_world, c_offset)
       IN  IF ~answer.ok \/ answer.items = <<>>
           THEN /\ c_stage' = "sbdb"
                /\ UNCHANGED <<c_collected, c_seen_keys, c_counts, c_offset>>
           ELSE /\ Collect(AddUntilTarget(Collecting, answer.items, 1, Len(answer.items)))
                /\ c_offset' = c_offset + meteorite_page_size
                /\ c_stage' = "meteorite"
    /\ UNCHANGED <<c_world, c_page, c_neo_ids, c_made, c_out>>
    /\ UNCHANGED outsideCombine

\* lines 156 and 160: the Meteorite stage is skipped, or its loop ends
MeteoriteFull ==
    /\ c_stage = "meteorite"
    /\ Len(c_collected) >= TARGET
    /\ c_stage' = "sbdb"
    /\ UNCHANGED <<c_world, c_page, c_offset, c_collected, c_seen_keys, c_counts, c_neo_ids,
                   c_made, c_requests, c_out>>
    /\ UNCHANGED outsideCombine

\* lines 188-194: the SBDB stage starts, or is skipped
SbdbStart ==
    /\ c_stage = "sbdb"
    /\ IF Len(c_collected) < TARGET
       THEN /\ c_neo_ids' = NeoIds(c_collected)
            /\ c_made' = 0
            /\ c_stage' = "sbdb_loop"
       ELSE /\ c_stage' = "horizons"
            /\ UNCHANGED <<c_neo_ids, c_made>>
    /\ UNCHANGED <<c_world, c_page, c_offset, c_collected, c_seen_keys, c_counts,
                   c_requests, c_out>>
    /\ UNCHANGED outsideCombine

\* lines 195-197: the for loop over neo_ids goes on; each turn adds one to
\* made, so the next id is the one at made + 1
SbdbRuns ==
    /\ c_stage = "sbdb_loop"
    /\ c_made < Len(c_neo_ids)
    /\ ~(Len(c_collected) >= TARGET \/ c_made >= max_sbdb)

\* lines 198-233: one SBDB query
SbdbQuery ==
    /\ SbdbRuns
    /\ c_requests' = c_requests + 1
    /\ LET answer == SbdbRow(c_world, c_neo_ids[c_made + 1])
       IN  IF answer.ok THEN Collect(add_row(Collecting, answer.items[1]))
           ELSE UNCHANGED <<c_collected, c_seen_keys, c_counts>>
    /\ c_made' = c_made + 1
    /\ UNCHANGED <<c_world, c_stage, c_page, c_offset, c_neo_ids, c_out>>
    /\ UNCHANGED outsideCombine

\* lines 195-197: the SBDB loop ends
SbdbEnd ==
    /\ c_stage = "sbdb_loop"
    /\ ~SbdbRuns
    /\ c_stage' = "horizons"
    /\ UNCHANGED <<c_world, c_page, c_offset, c_collected, c_seen_keys, c_counts, c_neo_ids,
                   c_made, c_requests, c_out>>
    /\ UNCHANGED outsideCombine

\* lines 236-281: the Horizons stage
Horizons ==
    /\ c_stage = "horizons"
    /\ Len(c_collected) < TARGET
    /\ c_requests' = c_requests + 1
    /\ LET answer == HorizonsRows(c_world)
       IN  IF answer.ok THEN Collect(AddAndTest(Collecting, answer.items, 1))
           ELSE UNCHANGED <<c_collected, c_seen_keys, c_counts>>
    /\ c_stage' = "write"
    /\ UNCHANGED <<c_world, c_page, c_offset, c_neo_ids, c_made, c_out>>
    /\ UNCHANGED outsideCombine

\* line 236: the Horizons stage is skipped
HorizonsSkipped ==
    /\ c_stage = "horizons"
    /\ Len(c_collected) >= TARGET
    /\ c_stage' = "write"
    /\ UNCHANGED <<c_world, c_page, c_offset, c_collected, c_seen_keys, c_counts, c_neo_ids,
                   c_made, c_requests, c_out>>
    /\ UNCHANGED outsideCombine

\* lines 284-295: combined_originals.csv is written
CombineWrite ==
    /\ c_stage = "write"
    /\ c_out' = [written |-> TRUE, rows |-> c_collected]
    /\ c_stage' = "done"
    /\ UNCHANGED <<c_world, c_page, c_offset, c_collected, c_seen_keys, c_counts, c_neo_ids,
                   c_made, c_requests>>
    /\ UNCHANGED outsideCombine

CombineNext ==
    \/ NeoWsBrowse
    \/ NeoWsFull
    \/ Fireball
    \/ FireballSkipped
    \/ Meteorite
    \/ MeteoriteFull
    \/ SbdbStart
    \/ SbdbQuery
    \/ SbdbEnd
    \/ Horizons
    \/ HorizonsSkipped
    \/ CombineWrite

----------------------------------------------------------------------------
(* Intersection/generate_top200_from_combined.py and                        *)
(* Intersection/make_top200_intersections.py: the 200 rows with the         *)
(* smallest key.  A cell of a CSV row is [text, n]: text tells how the cell  *)
(* is written ("digits": a decimal number, "commas": a decimal number with   *)
(* thousands separators, "empty", "N/A", "None", or "junk": any other text)  *)
(* and n is the number a "digits" or "commas" cell spells, 0 otherwise.      *)
(* Distances are in km, MOIDs in 1e-4 AU.                                    *)

top_n == 200

Field(text, n) == [text |-> text, n |-> n]
Digits(n) == Field("digits", n)

\* None, the result a conversion gives for no number
NoFloat == -1
\* float('inf'): above every distance and velocity of the inputs
Infinity == 1000000000

\* generate_top200_from_combined lines 20-30: parse_float
parse_float(s) ==
    IF s.text \in {"empty", "N/A", "None"} THEN NoFloat
    ELSE IF s.text \in {"digits", "commas"} THEN s.n
    ELSE NoFloat

\* float_of taking thousands separators as parse_float does
float_ofLenient(s) ==
    IF s.text \in {"digits", "commas"} THEN s.n ELSE NoFloat

\* make_top200_intersections lines 23-26: float(moid), NoFloat when it raises
float_of(s) ==
    IF s.text = "digits" THEN s.n ELSE NoFloat

\* the key of a row with the missing distance first, as 0
SortKeyNoneFirst(row) ==
    <<IF parse_float(row.miss_distance_km) # NoFloat
      THEN parse_float(row.miss_distance_km) ELSE 0,
      IF parse_float(row.velocity_km_s) # NoFloat
      THEN parse_float(row.velocity_km_s) ELSE Infinity>>

\* generate_top200_from_combined lines 44-52: _miss_km and _vel_kms of a row,
\* as the key of the sort (None => infinity)
SortKey(row) ==
    <<IF parse_float(row.miss_distance_km) # NoFloat
      THEN parse_float(row.miss_distance_km) ELSE Infinity,
      IF parse_float(row.velocity_km_s) # NoFloat
      THEN parse_float(row.velocity_km_s) ELSE Infinity>>

\* make_top200_intersections lines 27 and 34: the key of the sort
MoidKey(row) == <<float_of(row.moid_au), 0>>

\* the order of Python on tuples of two numbers
TupleLt(a, b) == a[1] < b[1] \/ (a[1] = b[1] /\ a[2] < b[2])

\* sorted(rows, key=...), k[i] being the key of rows[i]: the sort of Python is
\* stable, so the place of a row is one more than the number of rows with a
\* smaller key, or the same key and an earlier place in rows
sorted(rows, k) ==
    LET n == Len(rows)
        place == [i \in 1..n |->
                     1 + Cardinality({j \in 1..n : TupleLt(k[j], k[i])
                                                      \/ (k[j] = k[i] /\ j < i)})]
    IN  [p \in 1..n |-> rows[CHOOSE i \in 1..n : place[i] = p]]

\* rows[:200]
FirstN(rows, n) == SubSeq(rows, 1, Min(n, Len(rows)))

\* generate_top200_from_combined lines 32-75: main
generate_top200(in) ==
    IF ~in.exists THEN [written |-> FALSE, rows |-> <<>>, exit |-> 1]
    ELSE LET r_sorted == sorted(in.rows, [i \in 1..Len(in.rows) |-> SortKey(in.rows[i])])
         IN  [written |-> TRUE, rows |-> FirstN(r_sorted, top_n), exit |-> 0]

\* make_top200_intersections lines 14-46: the module body
make_top200(in) ==
    LET rows == SelectSeq(in.rows, LAMBDA r : float_of(r.moid_au) # NoFloat)
    IN  IF ~in.exists THEN [written |-> FALSE, rows |-> <<>>, exit |-> 1]
        ELSE IF rows = <<>> THEN [written |-> FALSE, rows |-> <<>>, exit |-> 0]
        ELSE LET rows_sorted == sorted(rows, [i \in 1..Len(rows) |-> MoidKey(rows[i])])
             IN  [written |-> TRUE, rows |-> FirstN(rows_sorted, top_n), exit |-> 0]

\* rows of combined_originals.csv: two NEOs at the same distance, one written
\* with thousands separators, and rows without a distance
CombinedRows ==
    {[id |-> 1, miss_distance_km |-> Digits(100), velocity_km_s |-> Digits(9)],
     [id |-> 2, miss_distance_km |-> Digits(100), velocity_km_s |-> Digits(5)],
     [id |-> 3, miss_distance_km |-> Field("commas", 1500), velocity_km_s |-> Field("empty", 0)],
     [id |-> 4, miss_distance_km |-> Digits(70), velocity_km_s |-> Digits(5)],
     [id |-> 5, miss_distance_km |-> Field("N/A", 0), velocity_km_s |-> Digits(5)],
     [id |-> 6, miss_distance_km |-> Field("empty", 0), velocity_km_s |-> Digits(9)],
     [id |-> 7, miss_distance_km |-> Field("junk", 0), velocity_km_s |-> Field("N/A", 0)]}

\* rows of earth_intersections.csv: two objects with the same MOID, and rows
\* without a MOID
IntersectionRows ==
    {[row_index |-> 0, moid_au |-> Digits(3)],
     [row_index |-> 1, moid_au |-> Digits(3)],
     [row_index |-> 2, moid_au |-> Digits(12)],
     [row_index |-> 3, moid_au |-> Field("empty", 0)],
     [row_index |-> 4, moid_au |-> Field("junk", 0)],
     [row_index |-> 5, moid_au |-> Field("commas", 1500)],
     [row_index |-> 6, moid_au |-> Digits(0)]}

\* the lengths of the long files, around top_n
LongSizes == {top_n - 1, top_n, top_n + 1, top_n + 30}

\* a long combined_originals.csv: the farthest object first, every fiftieth
\* row without a distance
LongCombined(n) ==
    [k \in 1..n |->
        [id |-> 1000 + k,
         miss_distance_km |-> IF k % 50 = 1 THEN Field("N/A", 0) ELSE Digits((n - k + 1) * 10),
         velocity_km_s |-> Digits(5)]]

\* a long earth_intersections.csv: the largest MOID first, MOIDs equal two by
\* two, every fiftieth row without a MOID
LongIntersections(n) ==
    [k \in 1..n |->
        [row_index |-> k,
         moid_au |-> IF k % 50 = 1 THEN Field("empty", 0) ELSE Digits((n - k) \div 2)]]

TopInit ==
    /\ script \in {"generate_top200_from_combined", "make_top200_intersections"}
    /\ g_in \in {[exists |-> FALSE, rows |-> <<>>]}
             \cup {[exists |-> TRUE, rows |-> rows] :
                      rows \in IF script = "generate_top200_from_combined"
                               THEN SeqsUpTo(CombinedRows, MaxRows)
                                    \cup {LongCombined(n) : n \in LongSizes}
                               ELSE SeqsUpTo(IntersectionRows, MaxRows)
                                    \cup {LongIntersections(n) : n \in LongSizes}}
    /\ g_out = [written |-> FALSE, rows |-> <<>>, exit |-> -1]
    /\ r_next = 1
    /\ r_running = {}
    /\ r_log = <<>>
    /\ cur = NoCall
    /\ console = "none"
    /\ predicted = <<>>
    /\ b_rows = <<>>
    /\ b_args = [max |-> 0, threshold_au |-> 0]
    /\ b_next = 0
    /\ b_checked = 0
    /\ b_results = <<>>
    /\ b_parsed = <<>>
    /\ b_budget = 0
    /\ b_out = [written |-> FALSE, rows |-> <<>>]
    /\ t_out = [ran |-> FALSE, points |-> 0, min_row |-> <<>>, saved_raw |-> FALSE]
    /\ m_rows = <<>>
    /\ m_args = [max_calls |-> 0, threshold_au |-> 0]
    /\ m_i = 1
    /\ m_pc = "rows"
    /\ m_variants = <<>>
    /\ m_v = 1
    /\ m_found = FALSE
    /\ m_last_error = ""
    /\ m_calls = 0
    /\ m_results = <<>>
    /\ m_out = [written |-> FALSE, rows |-> <<>>]
    /\ w_call = "none"
    /\ w_arg = <<>>
    /\ w_ret = [raised |-> "", value |-> <<>>]
    /\ w_csv = [written |-> FALSE, rows |-> <<>>]
    /\ w_raw = FALSE
    /\ c_world = <<>>
    /\ c_stage = "neows"
    /\ c_page = 0
    /\ c_offset = 0
    /\ c_collected = <<>>
    /\ c_seen_keys = {}
    /\ c_counts = [neo |-> 0, sbdb |-> 0, fireball |-> 0, meteorite |-> 0, horizons |-> 0]
    /\ c_neo_ids = <<>>
    /\ c_made = 0
    /\ c_requests = 0
    /\ c_out = [written |-> FALSE, rows |-> <<>>]

\* generate_top200_from_combined lines 76-77: the script is run
GenerateTop200 ==
    /\ script = "generate_top200_from_combined"
    /\ g_out.exit = -1
    /\ g_out' = generate_top200(g_in)
    /\ UNCHANGED g_in
    /\ UNCHANGED outsideTop

\* make_top200_intersections lines 8-55: the script is run
MakeTop200 ==
    /\ script = "make_top200_intersections"
    /\ g_out.exit = -1
    /\ g_out' = make_top200(g_in)
    /\ UNCHANGED g_in
    /\ UNCHANGED outsideTop

TopNext ==
    \/ GenerateTop200
    \/ MakeTop200

----------------------------------------------------------------------------
(* run_all_tables.py: the table scripts are run one after the other.        *)

\* lines 6-11
scripts == <<"neo_ws_api.py", "sbdb_api.py", "fireball_api.py", "horizons_api.py">>

\* the exit codes of a child: success, an uncaught exception, a file that
\* python cannot open
ExitCodes == {0, 1, 2}

RunInit ==
    /\ script = "run_all_tables"
    /\ r_next = 1
    /\ r_running = {}
    /\ r_log = <<>>
    /\ g_in = [exists |-> FALSE, rows |-> <<>>]
    /\ g_out = [written |-> FALSE, rows |-> <<>>, exit |-> -1]
    /\ cur = NoCall
    /\ console = "none"
    /\ predicted = <<>>
    /\ b_rows = <<>>
    /\ b_args = [max |-> 0, threshold_au |-> 0]
    /\ b_next = 0
    /\ b_checked = 0
    /\ b_results = <<>>
    /\ b_parsed = <<>>
    /\ b_budget = 0
    /\ b_out = [written |-> FALSE, rows |-> <<>>]
    /\ t_out = [ran |-> FALSE, points |-> 0, min_row |-> <<>>, saved_raw |-> FALSE]
    /\ m_rows = <<>>
    /\ m_args = [max_calls |-> 0, threshold_au |-> 0]
    /\ m_i = 1
    /\ m_pc = "rows"
    /\ m_variants = <<>>
    /\ m_v = 1
    /\ m_found = FALSE
    /\ m_last_error = ""
    /\ m_calls = 0
    /\ m_results = <<>>
    /\ m_out = [written |-> FALSE, rows |-> <<>>]
    /\ w_call = "none"
    /\ w_arg = <<>>
    /\ w_ret = [raised |-> "", value |-> <<>>]
    /\ w_csv = [written |-> FALSE, rows |-> <<>>]
    /\ w_raw = FALSE
    /\ c_world = <<>>
    /\ c_stage = "neows"
    /\ c_page = 0
    /\ c_offset = 0
    /\ c_collected = <<>>
    /\ c_seen_keys = {}
    /\ c_counts = [neo |-> 0, sbdb |-> 0, fireball |-> 0, meteorite |-> 0, horizons |-> 0]
    /\ c_neo_ids = <<>>
    /\ c_made = 0
    /\ c_requests = 0
    /\ c_out = [written |-> FALSE, rows |-> <<>>]

\* a parent that starts its children without waiting for them
WaitingNever == FALSE

\* line 15: subprocess.run returns when the child has exited; until then
\* the loop stands still
Waiting == r_running # {}

\* lines 13-15: the next turn of the loop prints and starts the script
RunStart ==
    /\ script = "run_all_tables"
    /\ r_next <= Len(scripts)
    /\ ~Waiting
    /\ r_running' = r_running \cup {scripts[r_next]}
    /\ r_log' = Append(r_log, [script |-> scripts[r_next], event |-> "start", code |-> 0])
    /\ r_next' = r_next + 1
    /\ UNCHANGED outsideRun

\* line 15: a child exits; its return code is not looked at
ChildExit ==
    /\ script = "run_all_tables"
    /\ \E s \in r_running, code \in ExitCodes :
           /\ r_running' = r_running \ {s}
           /\ r_log' = Append(r_log, [script |-> s, event |-> "exit", code |-> code])
    /\ UNCHANGED r_next
    /\ UNCHANGED outsideRun

RunNext ==
    \/ RunStart
    \/ ChildExit

----------------------------------------------------------------------------
(* fetch_sim_neo_close_approaches.py: the second computation of the kinetic energy *)

sim_neo_density_kg_m3 == Pos(3477)   \* 3000

\* lines 38-46 (the severity index, a sum, is left out)
sim_neo_calculate_properties(diameter_m, velocity_km_s) ==
    LET radius_m == Div(diameter_m, Pos(301))
        mass_kg == Mul(Mul(Mul(four_thirds, math_pi), PowInt(radius_m, 3)),
                       sim_neo_density_kg_m3)
        velocity_m_s == MulInt(velocity_km_s, Pos(3000))
        kinetic_energy_j == Mul(Mul(one_half, mass_kg), PowInt(velocity_m_s, 2))
        crater_diameter_m == Mul(Mul(Pos(1301), PowFrac(diameter_m, 780)),
                                 PowFrac(velocity_km_s, 440))
    IN  [mass_kg |-> mass_kg, kinetic_energy_j |-> kinetic_energy_j,
         crater_diameter_m |-> crater_diameter_m]

----------------------------------------------------------------------------
(* Specifications: the scripts are separate programs *)

SpecImpact == ImpactInit /\ [][ImpactNext]_vars

SpecHorizons == HorizonsInit /\ [][HorizonsNext]_vars

SpecMoid == MoidInit /\ [][MoidNext]_vars

SpecMeteorite == MeteoriteInit /\ [][MeteoriteNext]_vars

SpecCombine == CombineInit /\ [][CombineNext]_vars

SpecTop == TopInit /\ [][TopNext]_vars

SpecRun == RunInit /\ [][RunNext]_vars

----------------------------------------------------------------------------
(* The impact estimator: claims *)

Returned == cur.out.status = "ok"
IsPositive(x) == x.k = "num" /\ x.s = 1
PositiveArgs(a) ==
    /\ IsPositive(a.diameter_m)
    /\ IsPositive(a.velocity_km_s)
    /\ IsPositive(a.density_kg_m3)
    /\ IsPositive(a.target_density_kg_m3)
    /\ IsPositive(a.gravity)

\* C1: in every returned estimate the damage tier follows from energy_mt alone:
\* below 0.1 Mt negligible, from 0.1 up to but not including 10 local, from 10 up
\* to but not including 1000 regional, from 1000 on global catastrophic; one tier
\* is returned, and 0.1, 10 and 1000 themselves fall in the higher tier.
C1_DamageTier ==
    Returned =>
        LET e == cur.out.energy_mt
            level == cur.out.damage_level
        IN  /\ level \in {"Minor flash / negligible", "Local damage (few km)",
                          "Regional devastation", "Global catastrophic impact"}
            /\ Lt(e, Pos(-1000)) => level = "Minor flash / negligible"
            /\ (Le(Pos(-1000), e) /\ Lt(e, Pos(1000))) => level = "Local damage (few km)"
            /\ (Le(Pos(1000), e) /\ Lt(e, Pos(3000))) => level = "Regional devastation"
            /\ Le(Pos(3000), e) => level = "Global catastrophic impact"

\* an estimate whose energy is exactly 10 Mt, reported as regional
C1_Witness ==
    /\ Returned
    /\ cur.out.energy_mt = Pos(1000)
    /\ cur.out.damage_level = "Regional devastation"

\* C2: airburst is reported exactly when q = 0.5 * 1.2 * (velocity_km_s*1000)^2
\* is above 1e7 and diameter_m is below 60; never for diameter_m >= 60, never
\* for q <= 1e7.
C2_Airburst ==
    Returned =>
        LET q == Mul(Mul(Pos(-301), Pos(79)),
                     PowInt(Mul(cur.args.velocity_km_s, Pos(3000)), 2))
            d == cur.args.diameter_m
        IN  /\ cur.out.airburst <=> (Gt(q, Pos(7000)) /\ Lt(d, Pos(1778)))
            /\ Le(Pos(1778), d) => ~cur.out.airburst
            /\ Le(q, Pos(7000)) => ~cur.out.airburst

\* an airburst just inside both limits: 59.8 m at 4.09 km/s
C2_Witness ==
    /\ Returned
    /\ cur.args.diameter_m = Pos(1777)
    /\ cur.args.velocity_km_s = Pos(612)
    /\ cur.out.airburst

IsInvalid(x) == ~IsPositive(x)
SomeArgInvalid(a) ==
    \/ IsInvalid(a.diameter_m)
    \/ IsInvalid(a.velocity_km_s)
    \/ IsInvalid(a.density_kg_m3)
    \/ IsInvalid(a.target_density_kg_m3)
    \/ IsInvalid(a.gravity)

\* C4: a call with a zero, negative or non-numeric argument fails and returns no
\* estimate.
C4_InvalidInputRejected ==
    (cur.out.status # "none" /\ SomeArgInvalid(cur.args)) => ~Returned

\* C5: with density 3000 and positive diameter and velocity, energy_mt is
\* 0.5 * mass_kg * (velocity_km_s*1000)^2 / 4.184e15 with
\* mass_kg = (4/3) * pi * (diameter_m/2)^3 * 3000 recomputed, here by the formula
\* itself and by sim_neo_calculate_properties.
C5_Energy ==
    (Returned /\ PositiveArgs(cur.args) /\ cur.args.density_kg_m3 = Pos(3477)) =>
        LET d == cur.args.diameter_m
            v == cur.args.velocity_km_s
            mass_kg == Mul(Mul(Mul(Pos(125), Pos(497)), PowInt(Div(d, Pos(301)), 3)),
                           Pos(3477))
            energy_j == Mul(Mul(Pos(-301), mass_kg), PowInt(Mul(v, Pos(3000)), 2))
        IN  /\ cur.out.energy_mt = Div(energy_j, Pos(15622))
            /\ cur.out.energy_mt =
                   Div(sim_neo_calculate_properties(d, v).kinetic_energy_j, Pos(15622))

\* Chelyabinsk, 20 m at 19 km/s with density 3000: 0.542 Mt
C5_Witness ==
    /\ Returned
    /\ cur.args.diameter_m = Pos(1301)
    /\ cur.args.velocity_km_s = Pos(1279)
    /\ cur.args.density_kg_m3 = Pos(3477)
    /\ cur.out.energy_mt = Pos(-266)

\* the estimate for the arguments of the latest call with another diameter
WithDiameter(d) == Call([cur.args EXCEPT !.diameter_m = d]).out

\* C7: with the other arguments fixed, the crater diameter of a ground impact
\* does not decrease when the diameter grows.
C7_CraterMonotone ==
    (Returned /\ PositiveArgs(cur.args) /\ ~cur.out.airburst) =>
        \A d2 \in Diameters :
            (/\ Le(cur.args.diameter_m, d2)
             /\ WithDiameter(d2).status = "ok"
             /\ ~WithDiameter(d2).airburst)
            => Le(cur.out.crater_diameter_m, WithDiameter(d2).crater_diameter_m)

\* a ground impact, and a larger body on the ground with a larger crater
C7_Witness ==
    /\ Returned
    /\ PositiveArgs(cur.args)
    /\ ~cur.out.airburst
    /\ \E d2 \in Diameters :
           /\ Lt(cur.args.diameter_m, d2)
           /\ ~WithDiameter(d2).airburst
           /\ Lt(cur.out.crater_diameter_m, WithDiameter(d2).crater_diameter_m)

----------------------------------------------------------------------------
(* The closest approach: claims *)

\* the batch has queried an object whose response gave ephemeris points
BatchParsed ==
    /\ script = "horizons_closest_approach_batch"
    /\ b_results # <<>>
    /\ b_parsed # <<>>
\* the row of results of the latest query
LastRow == b_results[Len(b_results)]
\* horizons_trajectory has printed a closest approach
TrajectoryParsed ==
    /\ script = "horizons_trajectory"
    /\ t_out.ran
    /\ b_parsed # <<>>
\* sqrt(x^2 + y^2 + z^2) of a parsed point, in km
PointDistance(r) ==
    Sqrt((r.X * 1496) * (r.X * 1496) + (r.Y * 1496) * (r.Y * 1496)
         + (r.Z * 1496) * (r.Z * 1496))
\* d at epoch jd is the least distance of the parsed points, attained at jd
IsMinimum(d, jd) ==
    /\ \A i \in 1..Len(b_parsed) : d <= PointDistance(b_parsed[i])
    /\ \E i \in 1..Len(b_parsed) :
           PointDistance(b_parsed[i]) = d /\ b_parsed[i].epoch = jd

\* C8: for a non-empty sequence of parsed points the reported min_dist_km is the
\* least sqrt(x^2+y^2+z^2) over the points and min_epoch_jd is the epoch of a
\* point that attains it, in the batch and in horizons_trajectory.
C8_MinDistance ==
    /\ BatchParsed =>
           /\ LastRow.error = ""
           /\ IsMinimum(LastRow.min_dist_km, LastRow.min_epoch_jd)
    /\ TrajectoryParsed =>
           IsMinimum(t_out.min_row[1].distance_km, t_out.min_row[1].jd)

\* three points, the closest of them the last one
C8_Witness ==
    /\ BatchParsed
    /\ Len(b_parsed) = 3
    /\ LastRow.min_epoch_jd = b_parsed[3].epoch
    /\ LastRow.min_dist_km < PointDistance(b_parsed[1])
    /\ LastRow.min_dist_km < PointDistance(b_parsed[2])

\* jd is the earliest epoch among the parsed points at distance d
IsEarliest(d, jd) ==
    \A i \in 1..Len(b_parsed) : PointDistance(b_parsed[i]) = d => jd <= b_parsed[i].epoch

\* C9: when several points attain the minimum distance, the one of the earliest
\* epoch is returned.
C9_EarliestOnTie ==
    /\ BatchParsed => IsEarliest(LastRow.min_dist_km, LastRow.min_epoch_jd)
    /\ TrajectoryParsed => IsEarliest(t_out.min_row[1].distance_km, t_out.min_row[1].jd)

\* two points at the minimum distance, the earlier one reported
C9_Witness ==
    /\ BatchParsed
    /\ \E i, j \in 1..Len(b_parsed) :
           /\ i < j
           /\ PointDistance(b_parsed[i]) = LastRow.min_dist_km
           /\ PointDistance(b_parsed[j]) = LastRow.min_dist_km
           /\ LastRow.min_epoch_jd = b_parsed[i].epoch

\* C10: intersects is true exactly when min_dist_km <= threshold_au * 149597870.7,
\* equality included; for a series of one point the distance is that point's.
C10_Intersects ==
    script = "horizons_closest_approach_batch" =>
        /\ \A n \in 1..Len(b_results) :
               b_results[n].error = "" =>
                   (b_results[n].intersects
                       <=> b_results[n].min_dist_km <= b_args.threshold_au * 1496)
        /\ (BatchParsed /\ Len(b_parsed) = 1) =>
               /\ LastRow.min_dist_km = PointDistance(b_parsed[1])
               /\ LastRow.intersects
                      <=> PointDistance(b_parsed[1]) <= b_args.threshold_au * 1496

\* a series of one point exactly at the threshold, reported as intersecting
C10_Witness ==
    /\ BatchParsed
    /\ Len(b_parsed) = 1
    /\ LastRow.min_dist_km = b_args.threshold_au * 1496
    /\ LastRow.intersects = TRUE

\* C11: an object for which no ephemeris point is available (the query failed,
\* or nothing was parsed from the response) gets an explicit error and no
\* distance: its row carries the error, an empty min_dist_km and no intersects
\* value; horizons_trajectory prints no closest approach for it.
C11_EmptySeries ==
    /\ (script = "horizons_closest_approach_batch" /\ b_results # <<>> /\ b_parsed = <<>>) =>
           /\ LastRow.error \in {"no_vectors_parsed", "HTTPError"}
           /\ LastRow.min_dist_km = ""
           /\ LastRow.min_epoch_jd = ""
           /\ LastRow.intersects = ""
    /\ (script = "horizons_trajectory" /\ t_out.ran /\ b_parsed = <<>>) =>
           /\ t_out.min_row = <<>>
           /\ t_out.saved_raw

\* a response from which no row is parsed, reported as no_vectors_parsed
C11_Witness ==
    /\ script = "horizons_closest_approach_batch"
    /\ b_results # <<>>
    /\ b_parsed = <<>>
    /\ LastRow.error = "no_vectors_parsed"
    /\ LastRow.min_dist_km = ""

\* the identifier of an input row, "" when it has none, and whether the loop
\* passes the row over
RowIdent(r) == IF r.id # "" THEN r.id ELSE r.name
RowSkipped(r) == (r.source # "" /\ r.source # "neo") \/ RowIdent(r) = ""
\* the rows of an input a batch queries, in order: those not passed over, the
\* first max of them when max is not 0
RECURSIVE Evaluated(_, _, _, _)
Evaluated(rows, n, checked, max) ==
    IF n > Len(rows) \/ (max # 0 /\ checked >= max) THEN <<>>
    ELSE IF RowSkipped(rows[n]) THEN Evaluated(rows, n + 1, checked, max)
    ELSE <<<<RowIdent(rows[n]), rows[n].name>>>> \o Evaluated(rows, n + 1, checked + 1, max)
\* the objects of the rows of results, in order
Queried == [n \in 1..Len(b_results) |-> <<b_results[n].id, b_results[n].name>>]
\* the orders in which the rows of an input can be given
Orders(rows) ==
    {[n \in 1..Len(rows) |-> rows[p[n]]] :
        p \in {f \in [1..Len(rows) -> 1..Len(rows)] :
                  \A a, b \in 1..Len(rows) : f[a] = f[b] => a = b}}
\* two sequences hold the same elements the same number of times
SameBag(q1, q2) ==
    \A x \in Range(q1) \cup Range(q2) :
        Cardinality({n \in 1..Len(q1) : q1[n] = x}) = Cardinality({n \in 1..Len(q2) : q2[n] = x})
\* --max does not cut the run short
LimitNotReached == b_args.max = 0 \/ Len(Evaluated(b_rows, 1, 0, 0)) <= b_args.max

\* C14 as claimed: whatever the order of the input rows, the same records are
\* evaluated.
C14_AnyOrder ==
    (script = "horizons_closest_approach_batch" /\ b_out.written) =>
        /\ Queried = Evaluated(b_rows, 1, 0, b_args.max)
        /\ \A rows \in Orders(b_rows) :
               SameBag(Evaluated(rows, 1, 0, b_args.max), Queried)

\* C14, amended: when --max does not cut the run short, the same records are
\* evaluated whatever the order of the input rows; for every order the run
\* queries exactly the rows it does not pass over, each once.
C14_AnyOrderUnlessCut ==
    (script = "horizons_closest_approach_batch" /\ b_out.written) =>
        /\ Queried = Evaluated(b_rows, 1, 0, b_args.max)
        /\ LimitNotReached =>
               \A rows \in Orders(b_rows) :
                   SameBag(Evaluated(rows, 1, 0, b_args.max), Queried)

\* two different objects, both evaluated, which the other order evaluates too
C14_Witness ==
    /\ script = "horizons_closest_approach_batch"
    /\ b_out.written
    /\ LimitNotReached
    /\ Len(b_results) = 2
    /\ b_results[1].id # b_results[2].id
    /\ \E rows \in Orders(b_rows) :
           /\ rows # b_rows
           /\ SameBag(Evaluated(rows, 1, 0, b_args.max), Queried)

\* C16: every row of horizons_intersections.csv belongs to an object whose
\* minimum distance is at most threshold_au * 149597870.7.
C16_OnlyIntersecting ==
    (script = "horizons_closest_approach_batch" /\ b_out.written) =>
        \A n \in 1..Len(b_out.rows) :
            /\ b_out.rows[n].error = ""
            /\ b_out.rows[n].min_dist_km <= b_args.threshold_au * 1496

\* C17: with a positive --max, never more than max objects are queried; a row
\* passed over for its source or for want of an identifier is not counted and
\* not queried.
C17_MaxLimit ==
    /\ []((script = "horizons_closest_approach_batch" /\ b_args.max > 0) =>
             /\ Len(b_results) <= b_args.max
             /\ b_checked = Len(b_results))
    /\ [][(/\ script = "horizons_closest_approach_batch"
           /\ b_next <= Len(b_rows)
           /\ b_next' = b_next + 1
           /\ RowSkipped(b_rows[b_next]))
          => (b_checked' = b_checked /\ b_results' = b_results)]_vars

\* --max 1: a row was passed over, one object was queried, and the run was
\* written
C17_Witness ==
    /\ script = "horizons_closest_approach_batch"
    /\ b_args.max = 1
    /\ b_out.written
    /\ b_checked = 1
    /\ Len(b_rows) = 2
    /\ RowSkipped(b_rows[1])

----------------------------------------------------------------------------
(* The MOID path: claims *)

\* C12: for every object whose MOID was obtained, intersects is true exactly
\* when moid_au <= threshold_au, equality included (0.0005 against 0.001 is
\* true, 0.002 against 0.001 false); the classification of the block after
\* line 178 agrees.
C12_MoidThreshold ==
    \A n \in 1..Len(m_results) :
        m_results[n].error = "" =>
            /\ m_results[n].intersects <=> (m_results[n].moid_au <= m_args.threshold_au)
            /\ m_results[n].intersects
                   <=> trailing_intersects(m_results[n].moid_au, m_args.threshold_au) = "yes"

\* the written file holds an object whose MOID equals the threshold, as
\* intersecting, and one of MOID 0.002 AU against 0.001 AU, as not intersecting
C12_Witness ==
    /\ m_out.written
    /\ m_args.threshold_au = 10
    /\ \E n, k \in 1..Len(m_out.rows) :
           /\ m_out.rows[n].error = ""
           /\ m_out.rows[k].error = ""
           /\ m_out.rows[n].moid_au = 10
           /\ m_out.rows[n].intersects = TRUE
           /\ m_out.rows[k].moid_au = 20
           /\ m_out.rows[k].intersects = FALSE

\* C13: an object whose MOID is absent or unparseable is reported as a failure:
\* its row has an error, no MOID, and no intersects verdict, neither true nor
\* false.
C13_NoVerdictWithoutMoid ==
    \A n \in 1..Len(m_results) :
        m_results[n].error # "" =>
            /\ m_results[n].moid_au = ""
            /\ m_results[n].intersects \notin BOOLEAN

\* C18: with a positive --max-calls, calls never exceeds max_calls; once it has
\* reached max_calls no query is issued any more and no further row is started.
C18_CallBudget ==
    /\ [](m_args.max_calls # 0 => m_calls <= m_args.max_calls)
    /\ [][(m_args.max_calls # 0 /\ m_calls >= m_args.max_calls) =>
             /\ m_calls' = m_calls
             /\ m_pc = "rows" => (m_i' = m_i /\ m_pc' # "variants")]_vars

\* the budget of 2 was spent inside a row with variants left to try, and the
\* file was written with a row of the input never started
C18_Witness ==
    /\ m_args.max_calls = 2
    /\ m_calls = 2
    /\ m_out.written
    /\ m_v <= Len(m_variants)
    /\ m_i <= Len(m_rows)

----------------------------------------------------------------------------
(* The meteorite table: claims *)

\* C15: after write_meteorite_csv(data) with n records the file holds n+1 rows:
\* the header id, name, nametype, recclass, mass (g), year, reclat, reclong,
\* geolocation, then one row of nine cells per record, in the order of the
\* records; nothing is padded and nothing cut.
C15_HeaderAndOneRowEach ==
    w_call = "write_meteorite_csv" =>
        /\ w_csv.written
        /\ Len(w_csv.rows) = Len(w_arg) + 1
        /\ w_csv.rows[1] = <<"id", "name", "nametype", "recclass", "mass (g)", "year",
                             "reclat", "reclong", "geolocation">>
        /\ \A n \in 1..Len(w_arg) :
               /\ Len(w_csv.rows[n + 1]) = 9
               /\ w_csv.rows[n + 1][1] = w_arg[n].id
               /\ w_csv.rows[n + 1][2] = w_arg[n].name

\* the two records of the test: three rows, TestRock before NoGeo, the
\* position of NoGeo taken from its geolocation
C15_Witness ==
    /\ w_call = "write_meteorite_csv"
    /\ Len(w_arg) = 2
    /\ Len(w_csv.rows) = 3
    /\ w_csv.rows[2][2] = "TestRock"
    /\ w_csv.rows[3][2] = "NoGeo"
    /\ w_csv.rows[3][7] = "60.25"

\* the request failed: an exception, a status other than 200, an HTML page, or
\* a body that is not JSON
RequestFailure(resp) ==
    resp.exc \/ resp.status # 200 \/ resp.html \/ resp.body = "not_json"

\* C20: on every failure of the request fetch_meteorites returns the empty list
\* and raises nothing, and make_meteorite_table then writes the output CSV from
\* LOCAL_SAMPLE.
C20_EmptyListAndFallback ==
    /\ (w_call = "fetch_meteorites" /\ RequestFailure(w_arg)) =>
           /\ w_ret.raised = ""
           /\ w_ret.value = [kind |-> "list", items |-> <<>>]
    /\ (w_call = "make_meteorite_table" /\ RequestFailure(w_arg)) =>
           /\ w_ret.raised = ""
           /\ w_csv.written
           /\ Len(w_csv.rows) > 1
           /\ w_csv.rows[1] = <<"id", "name", "recclass", "mass_g", "year", "reclat", "reclong">>
           /\ \A n \in 2..Len(w_csv.rows) :
                  w_csv.rows[n][2] = (IF n % 2 = 0 THEN "Aachen" ELSE "Aarhus")

\* Socrata answered 404 with a JSON list, and the table was made of the local
\* sample
C20_Witness ==
    /\ w_call = "make_meteorite_table"
    /\ w_arg.status = 404
    /\ w_arg.body = "list"
    /\ w_arg.items # <<>>
    /\ w_csv.written
    /\ w_csv.rows[2][2] = "Aachen"

----------------------------------------------------------------------------
(* The combined table: claims *)

\* the rows of collected whose dedup key is made of their id or their name
Keyed(collected) ==
    {n \in 1..Len(collected) : collected[n].id # NoValue \/ collected[n].name # NoValue}

\* C19: collected never holds more than TARGET rows, no two collected rows
\* have the same dedup key (one key of seen_keys for every row, the keys made
\* of an id or a name all different), and once TARGET rows are collected no
\* request is sent and no row is added.
C19_StopsAtTarget ==
    /\ [](script = "fetch_and_combine_originals" =>
             /\ Len(c_collected) <= TARGET
             /\ Cardinality(c_seen_keys) = Len(c_collected)
             /\ \A n \in Keyed(c_collected) : KeyOf(c_collected[n], <<>>) \in c_seen_keys
             /\ Cardinality({KeyOf(c_collected[n], <<>>) : n \in Keyed(c_collected)})
                    = Cardinality(Keyed(c_collected)))
    /\ [][(script = "fetch_and_combine_originals" /\ Len(c_collected) >= TARGET)
          => (c_requests' = c_requests /\ c_collected' = c_collected)]_vars

\* the target was reached within a page of meteorites, after NeoWs and the
\* Fireball API; SBDB and Horizons were not asked, and the table was written
C19_Witness ==
    /\ script = "fetch_and_combine_originals"
    /\ c_out.written
    /\ Len(c_out.rows) = TARGET
    /\ c_counts.neo > 0
    /\ c_counts.fireball > 0
    /\ c_counts.meteorite > 0
    /\ c_counts.meteorite < meteorite_page_size
    /\ c_counts.sbdb = 0
    /\ c_counts.horizons = 0
    /\ c_requests = 53

\* C24: the rows of the Fireball API and of the Horizons table, which have no
\* id and no name of their own, are never rejected as duplicates: every
\* record of the answer is appended until TARGET rows are collected.
C24_NoIdRowsAllKept ==
    [][/\ (/\ script = "fetch_and_combine_originals"
           /\ c_stage = "fireball"
           /\ c_requests' = c_requests + 1
           /\ c_world.fireball_ok)
          => Len(c_collected') = Min(TARGET, Len(c_collected) + c_world.fireball_rows)
       /\ (/\ script = "fetch_and_combine_originals"
           /\ c_stage = "horizons"
           /\ c_requests' = c_requests + 1
           /\ c_world.horizons_ok)
          => Len(c_collected') = Min(TARGET, Len(c_collected) + c_world.horizons_rows)]_vars

----------------------------------------------------------------------------
(* The top 200: claims *)

\* a miss distance that is a number: a decimal, with or without thousands
\* separators
HasDistance(row) == row.miss_distance_km.text \in {"digits", "commas"}

\* a MOID that float() takes
HasMoid(row) == row.moid_au.text = "digits"

WithMoid(rows, v) == SelectSeq(rows, LAMBDA r : HasMoid(r) /\ r.moid_au.n = v)

\* one sequence is the beginning of the other
IsPrefix(p, q) == Len(p) <= Len(q) /\ p = SubSeq(q, 1, Len(p))

----------------------------------------------------------------------------
(* run_all_tables: claims *)

\* C23: the scripts are started in the order neo_ws_api, sbdb_api,
\* fireball_api, horizons_api, each only after the one before it has exited,
\* at most one runs at a time, and whatever the exit code of a script the
\* next one can be started.
C23_OneAfterTheOther ==
    script = "run_all_tables" =>
        /\ Cardinality(r_running) <= 1
        /\ \A n \in 1..Len(r_log) :
               /\ r_log[n].script = scripts[(n + 1) \div 2]
               /\ r_log[n].event = (IF n % 2 = 1 THEN "start" ELSE "exit")
        /\ r_running = (IF Len(r_log) % 2 = 1 THEN {r_log[Len(r_log)].script} ELSE {})
        /\ (r_running = {} /\ Len(r_log) < 2 * 4) => ENABLED RunStart

\* all four scripts have run, though the first and the third failed
C23_Witness ==
    /\ script = "run_all_tables"
    /\ Len(r_log) = 8
    /\ r_running = {}
    /\ r_log[2].code = 1
    /\ r_log[6].code = 2
    /\ r_log[7].script = "horizons_api.py"
    /\ r_log[8].code = 0

====
